---------------------------- MODULE Spec2Model ----------------------------
(***************************************************************************)
(* A model of PortAudio's sample format conversion layer                   *)
(* (src/common/pa_converters.c, src/common/pa_dither.h).                   *)
(*                                                                         *)
(* PaSampleFormat and PaStreamFlags are C `unsigned long` bit masks.  A    *)
(* mask is modelled as the set of the positions of its one bits, so that   *)
(* &, ~, >> and << are computed bit for bit and the word keeps its width.  *)
(*                                                                         *)
(* The specifications share the variables:                                 *)
(*   SpecSelect           one call of PaUtil_SelectClosestAvailableFormat; *)
(*   SpecSelectLive       the same, with the call taking its steps;        *)
(*   SpecSelectConverter  PaUtil_SelectConverter over all its arguments;   *)
(*   SpecConvert          a stream between two of the six formats: the     *)
(*                        converter is selected, then called on a buffer;  *)
(*   SpecSample           one converter called on one sample;              *)
(*   SpecZero             PaUtil_SelectZeroer and a call of the zeroer;    *)
(*   SpecDither           draws from the triangular dither generator;      *)
(*   SpecFloat            a stream from Float32 to an integer format, on   *)
(*                        builds with and without __ARM_NEON__;            *)
(*   SpecStream           a buffer converted in two successive calls that  *)
(*                        share one dither generator;                      *)
(*   SpecTable            every function of the converter table called     *)
(*                        once from the initialised dither state.          *)
(* Sample memory is modelled byte by byte for both byte orders             *)
(* (PA_LITTLE_ENDIAN, PA_BIG_ENDIAN); the converter table is that of the   *)
(* standard build (PA_NO_STANDARD_CONVERTERS not defined).  Floats and     *)
(* doubles are exact binary fractions rounded to 24 and 53 bits after      *)
(* every operation.                                                        *)
(***************************************************************************)
EXTENDS Integers, Sequences, FiniteSets, TLC

(***************************************************************************)
(* Bit masks                                                               *)
(***************************************************************************)

\* Width of `unsigned long`, the type of PaSampleFormat.
LongBits == 32

Word == 0 .. (LongBits - 1)

\* a & b
BitAnd(a, b) == a \cap b

\* a & ~m
BitAndNot(a, m) == a \ m

\* Mutant: the shift goes the wrong way.
ShiftRight1_Left(a) == { b + 1 : b \in { x \in a : x + 1 < LongBits } }

\* a >> 1 on an unsigned word: bit 0 is dropped.
ShiftRight1(a) == { b - 1 : b \in a \ {0} }

\* a << 1 on an unsigned word: the top bit is dropped.
ShiftLeft1(a) == { b + 1 : b \in { x \in a : x + 1 < LongBits } }

\* The sample format constants of portaudio.h, one bit each.
paFloat32 == {0}
paInt32 == {1}
paInt24 == {2}
paInt16 == {3}
paInt8 == {4}
paUInt8 == {5}
paCustomFormat == {16}
paNonInterleaved == {31}

\* (PaSampleFormat) paSampleFormatNotSupported: the error code -9994 as an
\* unsigned word, i.e. ~9993 = ~0x2709.
paSampleFormatNotSupported == Word \ {0, 3, 8, 9, 10, 13}

\* The six sample formats, in descending order of quality.
Formats == <<paFloat32, paInt32, paInt24, paInt16, paInt8, paUInt8>>

FormatSet == { Formats[i] : i \in 1 .. Len(Formats) }

\* The position of a format in the quality order, 1 the best.
Quality(f) == CHOOSE i \in 1 .. Len(Formats) : Formats[i] = f

(***************************************************************************)
(* State                                                                   *)
(***************************************************************************)
VARIABLES
    fpc,               \* position inside PaUtil_SelectClosestAvailableFormat
    argAvailable,      \* the availableFormats argument as passed
    argFormat,         \* the format argument as passed
    availableFormats,  \* the parameter, after the non-interleaved bit is cleared
    format,            \* the parameter, after the non-interleaved bit is cleared
    result,            \* the local `result`; the return value at "return"
    betterShifts,      \* number of `result >>= 1` executed by this call
    worseShifts,       \* number of `result <<= 1` executed by this call
    cpc,               \* position of the converter's caller
    littleEndian,      \* the build: PA_LITTLE_ENDIAN (TRUE) or PA_BIG_ENDIAN
    sourceFormat,      \* arguments of PaUtil_SelectConverter
    destinationFormat,
    flags,
    converter,         \* the PaUtilConverter* it returned ("NULL" for 0)
    sourceBuffer,      \* the caller's source memory, a sequence of bytes
    destinationBuffer, \* the caller's destination memory, a sequence of bytes
    sourceStride,      \* arguments of the converter call
    destinationStride,
    count,
    ditherGenerator,   \* the caller's PaUtilTriangularDitherGenerator
    stored,            \* the destination byte offsets the call stored to
    dithers,           \* the values the call drew from the dither generator
    zeroer,            \* the PaUtilZeroer* PaUtil_SelectZeroer returned
    ditherStart,       \* the generator state a sequence of draws began with
    draws,             \* the draws since: the entry point and the value
    armNeon,           \* the build: __ARM_NEON__ defined
    withAcceleration,  \* volatile int withAcceleration
    floatToInt,        \* the build: what an out of range (PaInt32) x returns
    dither24Scale,     \* the build: the scale of the 24 bit float dither
    converted          \* per sample of the call: the loop, the values computed

selectVars == <<fpc, argAvailable, argFormat, availableFormats, format,
                result, betterShifts, worseShifts>>

convVars == <<cpc, littleEndian, sourceFormat,
              destinationFormat, flags, converter, sourceBuffer,
              destinationBuffer, sourceStride, destinationStride, count,
              ditherGenerator, stored, dithers, zeroer>>

drawVars == <<ditherStart, draws>>

floatVars == <<armNeon, withAcceleration, floatToInt, dither24Scale, converted>>

vars == <<selectVars, convVars, drawVars, floatVars>>

(***************************************************************************)
(* PaUtil_SelectClosestAvailableFormat                                     *)
(***************************************************************************)

\* Requested formats a caller may pass: one of the six formats, the empty
\* mask and a bit above paCustomFormat, each with or without
\* paNonInterleaved.
RequestedFormats ==
    { f \cup ni : f \in FormatSet \cup { {}, {17} },
                  ni \in { {}, paNonInterleaved } }

\* Available masks: any union of the six formats, paCustomFormat and
\* paNonInterleaved.
AvailableMasks ==
    { UNION s : s \in SUBSET (FormatSet \cup {paCustomFormat, paNonInterleaved}) }

\* The shift counters only observe the scans; they saturate here so that a
\* scan that never ends keeps the state space finite.
ShiftCap == LongBits + 1

CountShift(n) == IF n < ShiftCap THEN n + 1 ELSE n

\* Mutant: the non-interleaved bit is not cleared.
StripNonInterleaved_KeepsBit(x) == x

\* `x &= ~paNonInterleaved`
StripNonInterleaved(x) == BitAndNot(x, paNonInterleaved)

\* Mutant: the scan for better formats is skipped for the worst format
\* instead of the best.
ScansForBetter_SkipsWorst(f) == f # {5}

\* The test `format != 0x01` that guards the scan for better formats.
ScansForBetter(f) == f # {0}

\* Mutant: the scan for better formats does not test availability.
BetterLoopContinues_NoTest(r, avail) == r # {}

\* The condition of the first do-while: keep shifting right.
BetterLoopContinues(r, avail) == BitAnd(r, avail) = {} /\ r # {}

\* Mutant: the scan for worse formats does not test availability.
WorseLoopContinues_NoTest(r, avail) == r # paCustomFormat

\* The condition of the second do-while: keep shifting left.
WorseLoopContinues(r, avail) == BitAnd(r, avail) = {} /\ r # paCustomFormat

\* Mutant: the last test is dropped, the scan's last word is returned.
WorseResult_NoTest(r, avail) == r

\* `if( (result & availableFormats) == 0 ) result = paSampleFormatNotSupported;`
WorseResult(r, avail) ==
    IF BitAnd(r, avail) = {} THEN paSampleFormatNotSupported ELSE r

\* Entry: clear the non-interleaved bit of both parameters and test whether
\* the requested format is available.
SelectClosest_Enter ==
    /\ fpc = "entry"
    /\ LET f == StripNonInterleaved(argFormat)
           a == StripNonInterleaved(argAvailable)
       IN  /\ format' = f
           /\ availableFormats' = a
           /\ IF BitAnd(f, a) = {}
              THEN IF ScansForBetter(f)
                   THEN result' = f /\ fpc' = "scanBetter"
                   ELSE result' = {} /\ fpc' = "afterBetter"
              ELSE result' = f /\ fpc' = "return"
    /\ UNCHANGED <<argAvailable, argFormat, betterShifts, worseShifts>>
    /\ UNCHANGED convVars
    /\ UNCHANGED drawVars
    /\ UNCHANGED floatVars

\* One iteration of `do { result >>= 1; } while(...)`.
SelectClosest_ScanBetter ==
    /\ fpc = "scanBetter"
    /\ LET r == ShiftRight1(result)
       IN  /\ result' = r
           /\ fpc' = IF BetterLoopContinues(r, availableFormats)
                     THEN "scanBetter" ELSE "afterBetter"
    /\ betterShifts' = CountShift(betterShifts)
    /\ UNCHANGED <<argAvailable, argFormat, availableFormats, format, worseShifts>>
    /\ UNCHANGED convVars
    /\ UNCHANGED drawVars
    /\ UNCHANGED floatVars

\* `if( result == 0 )`: nothing better was found, start the scan for worse.
SelectClosest_AfterBetter ==
    /\ fpc = "afterBetter"
    /\ IF result = {}
       THEN result' = format /\ fpc' = "scanWorse"
       ELSE result' = result /\ fpc' = "return"
    /\ UNCHANGED <<argAvailable, argFormat, availableFormats, format,
                   betterShifts, worseShifts>>
    /\ UNCHANGED convVars
    /\ UNCHANGED drawVars
    /\ UNCHANGED floatVars

\* One iteration of `do { result <<= 1; } while(...)`.
SelectClosest_ScanWorse ==
    /\ fpc = "scanWorse"
    /\ LET r == ShiftLeft1(result)
       IN  /\ result' = r
           /\ fpc' = IF WorseLoopContinues(r, availableFormats)
                     THEN "scanWorse" ELSE "afterWorse"
    /\ worseShifts' = CountShift(worseShifts)
    /\ UNCHANGED <<argAvailable, argFormat, availableFormats, format, betterShifts>>
    /\ UNCHANGED convVars
    /\ UNCHANGED drawVars
    /\ UNCHANGED floatVars

\* The end of the scan for worse formats.
SelectClosest_AfterWorse ==
    /\ fpc = "afterWorse"
    /\ result' = WorseResult(result, availableFormats)
    /\ fpc' = "return"
    /\ UNCHANGED <<argAvailable, argFormat, availableFormats, format,
                   betterShifts, worseShifts>>
    /\ UNCHANGED convVars
    /\ UNCHANGED drawVars
    /\ UNCHANGED floatVars

(***************************************************************************)
(* Integers of the C types.  A 32 bit word is kept as the value of its      *)
(* two's complement reading, so that it stays inside the range TLC          *)
(* computes in; the casts reduce modulo the width of the type, as the       *)
(* compilers PortAudio is built with do.                                    *)
(***************************************************************************)

Byte == 0 .. 255

\* (unsigned char) v
AsUInt8(v) == v % 256

\* (signed char) v
AsInt8(v) == IF v % 256 >= 128 THEN (v % 256) - 256 ELSE v % 256

\* (PaInt16) v
AsInt16(v) == IF v % 65536 >= 32768 THEN (v % 65536) - 65536 ELSE v % 65536

\* v >> k on a signed integer (arithmetic shift)
ShiftRightArith(v, k) == v \div (2 ^ k)

\* v << k where the result fits the 32 bit word
ShiftLeft(v, k) == v * (2 ^ k)

Reverse(s) == [ i \in 1 .. Len(s) |-> s[Len(s) + 1 - i] ]

\* The bytes of an object in memory, reordered least significant first.
ValueOrder(s, le) == IF le THEN s ELSE Reverse(s)

\* *(PaInt8*)p, *(unsigned char*)p, *(PaInt16*)p, *(PaUint16*)p, *(PaInt32*)p
\* for the bytes s of the object p points to.
LoadUInt8(s) == s[1]
LoadInt8(s) == AsInt8(s[1])
LoadUInt16(s, le) == ValueOrder(s, le)[1] + 256 * ValueOrder(s, le)[2]
LoadInt16(s, le) == AsInt16(LoadUInt16(s, le))
LoadInt32(s, le) ==
    LET v == ValueOrder(s, le)
    IN  v[1] + 256 * v[2] + 65536 * v[3] + 16777216 * AsInt8(v[4])

\* The bytes stored by *(T*)p = v.
StoreInt8(v) == << AsUInt8(v) >>
StoreInt16(v, le) == ValueOrder(<< v % 256, (v \div 256) % 256 >>, le)
StoreInt32(v, le) ==
    ValueOrder(<< v % 256, (v \div 256) % 256, (v \div 65536) % 256,
                  (v \div 16777216) % 256 >>, le)

\* The 24 bit sample at src read into the high three bytes of a PaInt32:
\* the #if PA_LITTLE_ENDIAN / PA_BIG_ENDIAN block of the Int24_To_* converters.
LoadInt24AsInt32(src, le) ==
    IF le
    THEN 256 * src[1] + 65536 * src[2] + 16777216 * AsInt8(src[3])
    ELSE 16777216 * AsInt8(src[1]) + 65536 * src[2] + 256 * src[3]

\* The high three bytes of a 32 bit word stored as a 24 bit sample: the
\* #if block of the *_To_Int24 converters.
StoreInt32AsInt24(v, le) ==
    IF le
    THEN << AsUInt8(ShiftRightArith(v, 8)), AsUInt8(ShiftRightArith(v, 16)),
            AsUInt8(ShiftRightArith(v, 24)) >>
    ELSE << AsUInt8(ShiftRightArith(v, 24)), AsUInt8(ShiftRightArith(v, 16)),
            AsUInt8(ShiftRightArith(v, 8)) >>

(***************************************************************************)
(* IEEE 754 single precision results of the integer to float converters.   *)
(***************************************************************************)

\* The position of the highest set bit of a, 1 <= a < 2^31.
Log2Floor(a) == CHOOSE p \in 0 .. 30 : a \div (2 ^ p) = 1

\* a / 2^sh rounded to the nearest integer, ties to even: the rounding of
\* the conversion (float) of a double.
RoundShift(a, sh) ==
    IF sh = 0 THEN a
    ELSE LET q == a \div (2 ^ sh)
             r == a % (2 ^ sh)
             half == 2 ^ (sh - 1)
         IN  IF r > half \/ (r = half /\ q % 2 = 1) THEN q + 1 ELSE q

\* The four bytes, least significant first, of the float with sign bit sgn,
\* 24 bit significand m (2^23 <= m < 2^24) and value m * 2^(e - 23).
Float32Bytes(sgn, m, e) ==
    LET frac == m - 8388608
        expo == e + 127
    IN  << frac % 256, (frac \div 256) % 256,
           (expo % 2) * 128 + (frac \div 65536), sgn * 128 + (expo \div 2) >>

\* The float nearest to a * 2^(-k) for a magnitude 1 <= a < 2^31.
Float32OfMagnitude(sgn, a, k) ==
    LET p == Log2Floor(a)
        m == IF p <= 23 THEN a * (2 ^ (23 - p)) ELSE RoundShift(a, p - 23)
    IN  IF m = 16777216
        THEN Float32Bytes(sgn, 8388608, p + 1 - k)
        ELSE Float32Bytes(sgn, m, p - k)

\* The bytes of (float)(n * 2^(-k)) for a 32 bit integer n; the product
\* n * 2^(-k) is exact in float for |n| < 2^24 and exact in double always.
Float32OfScaled(n, k) ==
    IF n = 0 THEN << 0, 0, 0, 0 >>
    ELSE IF n = -2147483647 - 1 THEN Float32OfMagnitude(1, 1073741824, k - 1)
    ELSE IF n < 0 THEN Float32OfMagnitude(1, 0 - n, k)
    ELSE Float32OfMagnitude(0, n, k)

\* *(float*)p = v
StoreFloat32(bytes, le) == ValueOrder(bytes, le)

(***************************************************************************)
(* Exact arithmetic for the float and double expressions of the converters *)
(* that read float samples.  A magnitude is a sequence of digits to the    *)
(* base 2^15, least significant first, without leading zero digits; a real *)
(* is a sign and a magnitude counted in units of 2^-150, so that every     *)
(* finite float, every product of a float and an integer scale and every   *)
(* sum of such values is represented exactly and each rounding of the code *)
(* is an explicit step.                                                    *)
(***************************************************************************)

DigitBits == 15
Digit == 2 ^ DigitBits

\* The units are 2^-150: ten digits below the binary point.
FractionDigits == 10

RECURSIVE Trim(_)
Trim(a) ==
    IF a = << >> THEN a
    ELSE IF a[Len(a)] = 0 THEN Trim(SubSeq(a, 1, Len(a) - 1)) ELSE a

\* The magnitude of an integer 0 <= n < 2^31.
DigitsOf(n) == Trim(<< n % Digit, (n \div Digit) % Digit, n \div (Digit * Digit) >>)

DigitAt(a, i) == IF i <= Len(a) THEN a[i] ELSE 0

RECURSIVE AddFrom(_, _, _, _)
AddFrom(a, b, i, carry) ==
    IF i > Len(a) /\ i > Len(b)
    THEN IF carry = 0 THEN << >> ELSE << carry >>
    ELSE LET s == DigitAt(a, i) + DigitAt(b, i) + carry
         IN  << s % Digit >> \o AddFrom(a, b, i + 1, s \div Digit)

MagAdd(a, b) == AddFrom(a, b, 1, 0)

RECURSIVE SubFrom(_, _, _, _)
SubFrom(a, b, i, borrow) ==
    IF i > Len(a) THEN << >>
    ELSE LET d == DigitAt(a, i) - DigitAt(b, i) - borrow
         IN  << d % Digit >> \o SubFrom(a, b, i + 1, IF d < 0 THEN 1 ELSE 0)

\* a - b for a >= b.
MagSub(a, b) == Trim(SubFrom(a, b, 1, 0))

RECURSIVE CompareFrom(_, _, _)
CompareFrom(a, b, i) ==
    IF i = 0 THEN 0
    ELSE IF a[i] < b[i] THEN 0 - 1
    ELSE IF a[i] > b[i] THEN 1
    ELSE CompareFrom(a, b, i - 1)

\* -1, 0 or 1 as a is below, equal to or above b.
MagCompare(a, b) ==
    IF Len(a) < Len(b) THEN 0 - 1
    ELSE IF Len(a) > Len(b) THEN 1
    ELSE CompareFrom(a, b, Len(a))

RECURSIVE TimesDigitFrom(_, _, _, _)
TimesDigitFrom(a, d, i, carry) ==
    IF i > Len(a)
    THEN IF carry = 0 THEN << >> ELSE << carry >>
    ELSE LET p == a[i] * d + carry
         IN  << p % Digit >> \o TimesDigitFrom(a, d, i + 1, p \div Digit)

\* a * d for one digit d.
MagTimesDigit(a, d) == IF d = 0 THEN << >> ELSE TimesDigitFrom(a, d, 1, 0)

\* a * Digit^k.
ShiftDigits(a, k) == IF a = << >> THEN a ELSE [ i \in 1 .. k |-> 0 ] \o a

RECURSIVE MagTimesFrom(_, _, _)
MagTimesFrom(a, b, j) ==
    IF j > Len(b) THEN << >>
    ELSE MagAdd(ShiftDigits(MagTimesDigit(a, b[j]), j - 1), MagTimesFrom(a, b, j + 1))

MagTimes(a, b) == MagTimesFrom(a, b, 1)

\* a * 2^k.
MagTimesPow2(a, k) ==
    ShiftDigits(MagTimesDigit(a, 2 ^ (k % DigitBits)), k \div DigitBits)

\* The integer part of a / 2^k.
MagDivPow2(a, k) ==
    LET q == k \div DigitBits
        r == k % DigitBits
    IN  IF Len(a) <= q THEN << >>
        ELSE Trim([ i \in 1 .. Len(a) - q |->
                      (a[i + q] \div (2 ^ r))
                        + (DigitAt(a, i + q + 1) % (2 ^ r)) * (2 ^ (DigitBits - r)) ])

\* The number of significant bits of a.
MagBits(a) ==
    IF a = << >> THEN 0
    ELSE DigitBits * (Len(a) - 1) + Log2Floor(a[Len(a)]) + 1

\* a rounded to p significant bits, to nearest, ties to even: the rounding
\* of one float (p = 24) or double (p = 53) operation.
MagRound(a, p) ==
    IF MagBits(a) <= p THEN a
    ELSE LET k == MagBits(a) - p
             q == MagDivPow2(a, k)
             rest == MagSub(a, MagTimesPow2(q, k))
             half == MagCompare(rest, MagTimesPow2(<< 1 >>, k - 1))
             up == half = 1 \/ (half = 0 /\ q[1] % 2 = 1)
         IN  MagTimesPow2(IF up THEN MagAdd(q, << 1 >>) ELSE q, k)

FloatBits == 24
DoubleBits == 53

Real(negative, magnitude) ==
    [ neg |-> negative /\ magnitude # << >>, mag |-> magnitude ]

\* The real of an integer magnitude.
RealOfMag(negative, a) == Real(negative, ShiftDigits(a, FractionDigits))

RealOfInt(n) ==
    IF n = (0 - 2147483647) - 1
    THEN RealOfMag(TRUE, MagTimesPow2(<< 1 >>, 31))
    ELSE IF n < 0 THEN RealOfMag(TRUE, DigitsOf(0 - n))
    ELSE RealOfMag(FALSE, DigitsOf(n))

RealAdd(x, y) ==
    IF x.neg = y.neg THEN Real(x.neg, MagAdd(x.mag, y.mag))
    ELSE IF MagCompare(x.mag, y.mag) >= 0 THEN Real(x.neg, MagSub(x.mag, y.mag))
    ELSE Real(y.neg, MagSub(y.mag, x.mag))

\* x * s for an integer magnitude s.
RealTimes(x, s) == Real(x.neg, MagTimes(x.mag, s))

RealRound(x, p) == Real(x.neg, MagRound(x.mag, p))

\* x < y
RealLess(x, y) ==
    IF x.neg /\ ~y.neg THEN TRUE
    ELSE IF ~x.neg /\ y.neg THEN FALSE
    ELSE IF x.neg THEN MagCompare(x.mag, y.mag) = 1
    ELSE MagCompare(x.mag, y.mag) = 0 - 1

\* The magnitude of x with the fraction dropped: rounding towards zero.
IntegerPart(x) ==
    IF Len(x.mag) <= FractionDigits THEN << >>
    ELSE SubSeq(x.mag, FractionDigits + 1, Len(x.mag))

\* x lies strictly between -2^31 - 1 and 2^31: its integer part is a PaInt32.
FitsInt32(x) ==
    LET t == IntegerPart(x)
        c == MagCompare(t, MagTimesPow2(<< 1 >>, 31))
    IN  c = 0 - 1 \/ (c = 0 /\ x.neg)

\* The integer of a magnitude below 2^31.
IntOfMag(a) == DigitAt(a, 1) + Digit * DigitAt(a, 2) + Digit * Digit * DigitAt(a, 3)

\* The integer part of x as a PaInt32, for x that fits.
Int32Part(x) ==
    LET t == IntegerPart(x)
    IN  IF MagBits(t) = 32 THEN (0 - 2147483647) - 1
        ELSE IF x.neg THEN 0 - IntOfMag(t) ELSE IntOfMag(t)

\* The real a float holds, from its four bytes, least significant first
\* (finite floats; zero and the subnormals have exponent field 0).
RealOfFloat32(b) ==
    LET expo == (b[4] % 128) * 2 + (b[3] \div 128)
        frac == (b[3] % 128) * 65536 + b[2] * 256 + b[1]
    IN  IF expo = 0 THEN Real(b[4] >= 128, MagTimesPow2(DigitsOf(frac), 1))
        ELSE Real(b[4] >= 128, MagTimesPow2(DigitsOf(frac + 8388608), expo))

\* *src for float *src
LoadFloat32(s, le) == RealOfFloat32(ValueOrder(s, le))

(***************************************************************************)
(* The triangular dither generator.  pa_dither.c is not among the sources; *)
(* the scalar generator follows the statements kept as comments in          *)
(* PaUtil_GenerateFloatTriangularDitherVector and the algorithm of the      *)
(* specification.  Seeds are 32 bit words kept as signed values.            *)
(***************************************************************************)

PA_DITHER_BITS_ == 15
\* Mutant: without the extra bit for the high pass filter.
DITHER_SHIFT__NoExtraBit == 4 * 8 - PA_DITHER_BITS_

DITHER_SHIFT_ == (4 * 8 - PA_DITHER_BITS_) + 1
ARM_NEON_BEST_VECTOR_SIZE == 4

\* The four bytes, least significant first, of a 32 bit word.
WordBytes(v) ==
    << v % 256, (v \div 256) % 256, (v \div 65536) % 256, (v \div 16777216) % 256 >>

\* The signed value of the word with bytes b, least significant first.
WordOfBytes(b) == b[1] + 256 * b[2] + 65536 * b[3] + 16777216 * AsInt8(b[4])

LcgMultiplier == WordBytes(196314165)
LcgOffset == WordBytes(907633515)

\* seed * 196314165 + 907633515 modulo 2^32, by columns of bytes so that
\* no intermediate value leaves the range TLC computes in.
LcgStep(seed) ==
    LET x == WordBytes(seed)
        c == LcgMultiplier
        o == LcgOffset
        s0 == x[1] * c[1] + o[1]
        s1 == x[1] * c[2] + x[2] * c[1] + o[2] + (s0 \div 256)
        s2 == x[1] * c[3] + x[2] * c[2] + x[3] * c[1] + o[3] + (s1 \div 256)
        s3 == x[1] * c[4] + x[2] * c[3] + x[3] * c[2] + x[4] * c[1] + o[4]
                 + (s2 \div 256)
    IN  WordOfBytes(<< s0 % 256, s1 % 256, s2 % 256, s3 % 256 >>)

\* The state after one scalar draw and the high passed value drawn.
TriangularDitherStep(state) ==
    LET seed1 == LcgStep(state.randSeed1[1])
        seed2 == LcgStep(state.randSeed2[1])
        current == ShiftRightArith(seed1, DITHER_SHIFT_)
                     + ShiftRightArith(seed2, DITHER_SHIFT_)
    IN  [ state |-> [ previous |-> current,
                      randSeed1 |-> [ state.randSeed1 EXCEPT ![1] = seed1 ],
                      randSeed2 |-> [ state.randSeed2 EXCEPT ![1] = seed2 ] ],
          highPass |-> current - state.previous ]

\* PaInt32 PaUtil_Generate16BitTriangularDither( ditherState )
PaUtil_Generate16BitTriangularDither(state) ==
    LET step == TriangularDitherStep(state)
    IN  [ state |-> step.state, value |-> step.highPass ]

\* const_float_dither_scale_ = PA_FLOAT_DITHER_SCALE_ = 1.0f / ((1 << 15) - 1):
\* the float nearest to 1/32767 is 32769 * 2^(-30).
const_float_dither_scale_ == 32769

\* (float)highPass * const_float_dither_scale_, one rounding of the exact
\* product to a float; the bytes of the float, least significant first.
FloatDither(highPass) == Float32OfScaled(highPass * const_float_dither_scale_, 30)

\* float PaUtil_GenerateFloatTriangularDither( ditherState )
PaUtil_GenerateFloatTriangularDither(state) ==
    LET step == TriangularDitherStep(state)
    IN  [ state |-> step.state, value |-> FloatDither(step.highPass) ]

RECURSIVE LcgIterate(_, _)
LcgIterate(seed, n) == IF n = 0 THEN seed ELSE LcgIterate(LcgStep(seed), n - 1)

Lanes == 1 .. ARM_NEON_BEST_VECTOR_SIZE

\* Mutant: every lane takes its previous value from the state.
PaUtil_GenerateFloatTriangularDitherVector_NoShift(state) ==
    LET seed1 == [ i \in Lanes |-> LcgStep(state.randSeed1[i]) ]
        seed2 == [ i \in Lanes |-> LcgStep(state.randSeed2[i]) ]
        current == [ i \in Lanes |->
                       ShiftRightArith(seed1[i], DITHER_SHIFT_)
                         + ShiftRightArith(seed2[i], DITHER_SHIFT_) ]
    IN  [ state |-> [ previous |-> current[ARM_NEON_BEST_VECTOR_SIZE],
                      randSeed1 |-> [ i \in Lanes |-> LcgIterate(seed1[i], 3) ],
                      randSeed2 |-> [ i \in Lanes |-> LcgIterate(seed2[i], 3) ] ],
          value |-> [ i \in Lanes |-> FloatDither(current[i] - state.previous) ] ]

\* Mutant: the seeds stored for the next call lack one step.
PaUtil_GenerateFloatTriangularDitherVector_ShortRun(state) ==
    LET seed1 == [ i \in Lanes |-> LcgStep(state.randSeed1[i]) ]
        seed2 == [ i \in Lanes |-> LcgStep(state.randSeed2[i]) ]
        neonCurrent == [ i \in Lanes |->
                           ShiftRightArith(seed1[i], DITHER_SHIFT_)
                             + ShiftRightArith(seed2[i], DITHER_SHIFT_) ]
        neonPrev == [ i \in Lanes |->
                        IF i = 1 THEN state.previous ELSE neonCurrent[i - 1] ]
    IN  [ state |-> [ previous |-> neonCurrent[ARM_NEON_BEST_VECTOR_SIZE],
                      randSeed1 |-> [ i \in Lanes |-> LcgIterate(seed1[i], 2) ],
                      randSeed2 |-> [ i \in Lanes |-> LcgIterate(seed2[i], 2) ] ],
          value |-> [ i \in Lanes |-> FloatDither(neonCurrent[i] - neonPrev[i]) ] ]

\* float32x4_t PaUtil_GenerateFloatTriangularDitherVector( state ): each
\* lane steps its seeds once for its value and three times more for the
\* next call; neonPrev is neonCurrent moved one lane up with the old
\* state->previous in lane 0; the differences stay far inside 32 bits, so
\* vqsubq_s32 never saturates.
PaUtil_GenerateFloatTriangularDitherVector(state) ==
    LET seed1 == [ i \in Lanes |-> LcgStep(state.randSeed1[i]) ]
        seed2 == [ i \in Lanes |-> LcgStep(state.randSeed2[i]) ]
        neonCurrent == [ i \in Lanes |->
                           ShiftRightArith(seed1[i], DITHER_SHIFT_)
                             + ShiftRightArith(seed2[i], DITHER_SHIFT_) ]
        neonPrev == [ i \in Lanes |->
                        IF i = 1 THEN state.previous ELSE neonCurrent[i - 1] ]
    IN  [ state |-> [ previous |-> neonCurrent[ARM_NEON_BEST_VECTOR_SIZE],
                      randSeed1 |-> [ i \in Lanes |-> LcgIterate(seed1[i], 3) ],
                      randSeed2 |-> [ i \in Lanes |-> LcgIterate(seed2[i], 3) ] ],
          value |-> [ i \in Lanes |-> FloatDither(neonCurrent[i] - neonPrev[i]) ] ]


\* A generator state whose lanes hold successive seeds of one sequence.
DitherStateOf(prev, seed1, seed2) ==
    [ previous |-> prev,
      randSeed1 |-> [ i \in 1 .. ARM_NEON_BEST_VECTOR_SIZE |-> LcgIterate(seed1, i - 1) ],
      randSeed2 |-> [ i \in 1 .. ARM_NEON_BEST_VECTOR_SIZE |-> LcgIterate(seed2, i - 1) ] ]

\* void PaUtil_InitializeTriangularDitherState( ditherState ): previous is
\* 0 and the seeds are those of the PortAudio distribution.
PaUtil_InitializeTriangularDitherState == DitherStateOf(0, 22222, 5555555)

\* The state n scalar draws after state.
RECURSIVE AfterDraws(_, _)
AfterDraws(state, n) ==
    IF n = 0 THEN state ELSE AfterDraws(TriangularDitherStep(state).state, n - 1)

\* The generator states a caller hands in: that of a stream that starts and
\* that of a stream that has drawn one value (the next value is above zero
\* in the first and below zero in the second).
DitherStates ==
    { AfterDraws(PaUtil_InitializeTriangularDitherState, n) : n \in { 0, 1 } }

(***************************************************************************)
(* The converters.  Each definition named after a function of               *)
(* pa_converters.c is the body of that function's loop: from the bytes of   *)
(* the source sample (and the dither value drawn for it) to the bytes the   *)
(* iteration stores at dest.  The empty sequence is an iteration without a  *)
(* store.                                                                   *)
(***************************************************************************)

NoStore == << >>

\* Mutant: the product with 1 / 2^30.
Int32_To_Float32_Doubled(src, le) ==
    StoreFloat32(Float32OfScaled(LoadInt32(src, le), 30), le)

Int32_To_Float32(src, le) == StoreFloat32(Float32OfScaled(LoadInt32(src, le), 31), le)

\* Mutant: the three low-order bytes are stored.
Int32_To_Int24_LowBytes(src, le) == IF le THEN SubSeq(src, 1, 3) ELSE SubSeq(src, 2, 4)

\* src is read through a PaUint32 pointer; the casts to unsigned char keep
\* the same bytes as for the signed reading.
Int32_To_Int24(src, le) == StoreInt32AsInt24(LoadInt32(src, le), le)

Int32_To_Int24_Dither(src, dither, le) == NoStore

Int32_To_Int16(src, le) ==
    StoreInt16(AsInt16(ShiftRightArith(LoadInt32(src, le), 16)), le)

Int32_To_Int16_Dither(src, dither, le) ==
    StoreInt16(AsInt16(ShiftRightArith(
        ShiftRightArith(LoadInt32(src, le), 1) + dither, 15)), le)

Int32_To_Int8(src, le) == StoreInt8(AsInt8(ShiftRightArith(LoadInt32(src, le), 24)))

Int32_To_Int8_Dither(src, dither, le) ==
    StoreInt8(AsInt8(ShiftRightArith(
        ShiftRightArith(LoadInt32(src, le), 1) + dither, 23)))

Int32_To_UInt8(src, le) ==
    << AsUInt8(ShiftRightArith(LoadInt32(src, le), 24) + 128) >>

Int32_To_UInt8_Dither(src, dither, le) == NoStore

Int24_To_Float32(src, le) ==
    StoreFloat32(Float32OfScaled(LoadInt24AsInt32(src, le), 31), le)

Int24_To_Int32(src, le) == StoreInt32(LoadInt24AsInt32(src, le), le)

Int24_To_Int16(src, le) ==
    IF le
    THEN StoreInt16(AsInt16(src[2] + 256 * src[3]), le)
    ELSE StoreInt16(AsInt16(256 * src[1] + src[2]), le)

Int24_To_Int16_Dither(src, dither, le) ==
    StoreInt16(AsInt16(ShiftRightArith(
        ShiftRightArith(LoadInt24AsInt32(src, le), 1) + dither, 15)), le)

Int24_To_Int8(src, le) == IF le THEN StoreInt8(src[3]) ELSE StoreInt8(src[1])

Int24_To_Int8_Dither(src, dither, le) ==
    StoreInt8(AsInt8(ShiftRightArith(
        ShiftRightArith(LoadInt24AsInt32(src, le), 1) + dither, 23)))

Int24_To_UInt8(src, le) ==
    IF le THEN << AsUInt8(src[3] + 128) >> ELSE << AsUInt8(src[1] + 128) >>

Int24_To_UInt8_Dither(src, dither, le) == NoStore

Int16_To_Float32(src, le) == StoreFloat32(Float32OfScaled(LoadInt16(src, le), 15), le)

Int16_To_Int32(src, le) == StoreInt32(ShiftLeft(LoadInt16(src, le), 16), le)

Int16_To_Int24(src, le) ==
    LET temp == AsInt16(LoadUInt16(src, le))
    IN  IF le
        THEN << 0, AsUInt8(temp), AsUInt8(ShiftRightArith(temp, 8)) >>
        ELSE << AsUInt8(ShiftRightArith(temp, 8)), AsUInt8(temp), 0 >>

Int16_To_Int8(src, le) == StoreInt8(AsInt8(ShiftRightArith(LoadInt16(src, le), 8)))

Int16_To_Int8_Dither(src, dither, le) == NoStore

Int16_To_UInt8(src, le) ==
    << AsUInt8(ShiftRightArith(LoadInt16(src, le), 8) + 128) >>

Int16_To_UInt8_Dither(src, dither, le) == NoStore

Int8_To_Float32(src, le) == StoreFloat32(Float32OfScaled(LoadInt8(src), 7), le)

Int8_To_Int32(src, le) == StoreInt32(ShiftLeft(LoadInt8(src), 24), le)

Int8_To_Int24(src, le) ==
    IF le THEN << 0, 0, AsUInt8(LoadInt8(src)) >> ELSE << AsUInt8(LoadInt8(src)), 0, 0 >>

Int8_To_Int16(src, le) == StoreInt16(AsInt16(ShiftLeft(LoadInt8(src), 8)), le)

\* Mutant: the sample is stored without the offset.
Int8_To_UInt8_NoOffset(src, le) == << AsUInt8(LoadInt8(src)) >>

Int8_To_UInt8(src, le) == << AsUInt8(LoadInt8(src) + 128) >>

UInt8_To_Float32(src, le) ==
    StoreFloat32(Float32OfScaled(LoadUInt8(src) - 128, 7), le)

UInt8_To_Int32(src, le) == StoreInt32(ShiftLeft(LoadUInt8(src) - 128, 24), le)

\* Mutant: the sample is widened without the offset.
UInt8_To_Int24_NoOffset(src, le) ==
    IF le THEN << 0, 0, LoadUInt8(src) >> ELSE << LoadUInt8(src), 0, 0 >>

UInt8_To_Int24(src, le) ==
    IF le
    THEN << 0, 0, AsUInt8(LoadUInt8(src) - 128) >>
    ELSE << AsUInt8(LoadUInt8(src) - 128), 0, 0 >>

UInt8_To_Int16(src, le) == StoreInt16(AsInt16(ShiftLeft(LoadUInt8(src) - 128, 8)), le)

UInt8_To_Int8(src, le) == StoreInt8(AsInt8(LoadUInt8(src) - 128))

Copy_8_To_8(src, le) == << LoadUInt8(src) >>

Copy_16_To_16(src, le) == StoreInt16(LoadUInt16(src, le), le)

Copy_24_To_24(src, le) == << src[1], src[2], src[3] >>

Copy_32_To_32(src, le) == StoreInt32(LoadInt32(src, le), le)

(***************************************************************************)
(* The converter table and PaUtil_SelectConverter (standard converters     *)
(* build: PA_NO_STANDARD_CONVERTERS is not defined).                        *)
(***************************************************************************)

paClipOff == {0}
paDitherOff == {1}

NULL == "NULL"

\* source ## _To_ ## destination ## variant
ConverterName(source, destination, variant) == source \o "_To_" \o destination \o variant

IntegerDestinations == { "Int32", "Int24", "Int16", "Int8", "UInt8" }

\* The functions of the file with the sample formats their pointers read
\* and write.
ConverterTypes ==
    { [ name |-> ConverterName("Float32", d, v), source |-> "Float32", destination |-> d ] :
        d \in IntegerDestinations, v \in { "", "_Dither", "_Clip", "_DitherClip" } }
    \cup { [ name |-> ConverterName("Int32", d, v), source |-> "Int32", destination |-> d ] :
        d \in { "Int24", "Int16", "Int8", "UInt8" }, v \in { "", "_Dither" } }
    \cup { [ name |-> ConverterName("Int24", d, v), source |-> "Int24", destination |-> d ] :
        d \in { "Int16", "Int8", "UInt8" }, v \in { "", "_Dither" } }
    \cup { [ name |-> ConverterName("Int16", d, v), source |-> "Int16", destination |-> d ] :
        d \in { "Int8", "UInt8" }, v \in { "", "_Dither" } }
    \cup { [ name |-> ConverterName("Int32", d, ""), source |-> "Int32", destination |-> d ] :
        d \in { "Float32" } }
    \cup { [ name |-> ConverterName("Int24", d, ""), source |-> "Int24", destination |-> d ] :
        d \in { "Float32", "Int32" } }
    \cup { [ name |-> ConverterName("Int16", d, ""), source |-> "Int16", destination |-> d ] :
        d \in { "Float32", "Int32", "Int24" } }
    \cup { [ name |-> ConverterName("Int8", d, ""), source |-> "Int8", destination |-> d ] :
        d \in { "Float32", "Int32", "Int24", "Int16", "UInt8" } }
    \cup { [ name |-> ConverterName("UInt8", d, ""), source |-> "UInt8", destination |-> d ] :
        d \in { "Float32", "Int32", "Int24", "Int16", "Int8" } }
    \cup { [ name |-> ConverterName("Copy_" \o w, w, ""), source |-> w, destination |-> w ] :
        w \in { "8", "16", "24", "32" } }

\* PaUtilConverterTable paConverters: every field holds the function of the
\* same name.
paConverters == [ field \in { t.name : t \in ConverterTypes } |-> field ]

\* switch( format & ~paNonInterleaved ) with one arm for each format.
PA_SELECT_FORMAT_(fmt, float32, int32, int24, int16, int8, uint8) ==
    LET f == BitAndNot(fmt, paNonInterleaved)
    IN  CASE f = paFloat32 -> float32
          [] f = paInt32 -> int32
          [] f = paInt24 -> int24
          [] f = paInt16 -> int16
          [] f = paInt8 -> int8
          [] f = paUInt8 -> uint8
          [] OTHER -> NULL

\* Mutant: the flag tests are exchanged.
PA_SELECT_CONVERTER_DITHER_CLIP__Swapped(fl, source, destination) ==
    IF BitAnd(fl, paDitherOff) # {}
    THEN IF BitAnd(fl, paClipOff) # {}
         THEN paConverters[ConverterName(source, destination, "")]
         ELSE paConverters[ConverterName(source, destination, "_Dither")]
    ELSE IF BitAnd(fl, paClipOff) # {}
         THEN paConverters[ConverterName(source, destination, "_Clip")]
         ELSE paConverters[ConverterName(source, destination, "_DitherClip")]

PA_SELECT_CONVERTER_DITHER_CLIP_(fl, source, destination) ==
    IF BitAnd(fl, paClipOff) # {}
    THEN IF BitAnd(fl, paDitherOff) # {}
         THEN paConverters[ConverterName(source, destination, "")]
         ELSE paConverters[ConverterName(source, destination, "_Dither")]
    ELSE IF BitAnd(fl, paDitherOff) # {}
         THEN paConverters[ConverterName(source, destination, "_Clip")]
         ELSE paConverters[ConverterName(source, destination, "_DitherClip")]

PA_SELECT_CONVERTER_DITHER_(fl, source, destination) ==
    IF BitAnd(fl, paDitherOff) # {}
    THEN paConverters[ConverterName(source, destination, "")]
    ELSE paConverters[ConverterName(source, destination, "_Dither")]

\* Mutant: a converter between two formats is replaced by a copy.
PA_USE_CONVERTER__AsCopy(source, destination) ==
    paConverters[ConverterName("Copy_8", "8", "")]

PA_USE_CONVERTER_(source, destination) ==
    paConverters[ConverterName(source, destination, "")]

\* Mutant: every unity conversion copies 32 bit words.
PA_UNITY_CONVERSION__Always32(wordlength) ==
    paConverters[ConverterName("Copy_32", "32", "")]

PA_UNITY_CONVERSION_(wordlength) ==
    paConverters[ConverterName("Copy_" \o wordlength, wordlength, "")]

PaUtil_SelectConverter(srcFormat, dstFormat, fl) ==
    PA_SELECT_FORMAT_(srcFormat,
        PA_SELECT_FORMAT_(dstFormat,
            PA_UNITY_CONVERSION_("32"),
            PA_SELECT_CONVERTER_DITHER_CLIP_(fl, "Float32", "Int32"),
            PA_SELECT_CONVERTER_DITHER_CLIP_(fl, "Float32", "Int24"),
            PA_SELECT_CONVERTER_DITHER_CLIP_(fl, "Float32", "Int16"),
            PA_SELECT_CONVERTER_DITHER_CLIP_(fl, "Float32", "Int8"),
            PA_SELECT_CONVERTER_DITHER_CLIP_(fl, "Float32", "UInt8")),
        PA_SELECT_FORMAT_(dstFormat,
            PA_USE_CONVERTER_("Int32", "Float32"),
            PA_UNITY_CONVERSION_("32"),
            PA_SELECT_CONVERTER_DITHER_(fl, "Int32", "Int24"),
            PA_SELECT_CONVERTER_DITHER_(fl, "Int32", "Int16"),
            PA_SELECT_CONVERTER_DITHER_(fl, "Int32", "Int8"),
            PA_SELECT_CONVERTER_DITHER_(fl, "Int32", "UInt8")),
        PA_SELECT_FORMAT_(dstFormat,
            PA_USE_CONVERTER_("Int24", "Float32"),
            PA_USE_CONVERTER_("Int24", "Int32"),
            PA_UNITY_CONVERSION_("24"),
            PA_SELECT_CONVERTER_DITHER_(fl, "Int24", "Int16"),
            PA_SELECT_CONVERTER_DITHER_(fl, "Int24", "Int8"),
            PA_SELECT_CONVERTER_DITHER_(fl, "Int24", "UInt8")),
        PA_SELECT_FORMAT_(dstFormat,
            PA_USE_CONVERTER_("Int16", "Float32"),
            PA_USE_CONVERTER_("Int16", "Int32"),
            PA_USE_CONVERTER_("Int16", "Int24"),
            PA_UNITY_CONVERSION_("16"),
            PA_SELECT_CONVERTER_DITHER_(fl, "Int16", "Int8"),
            PA_SELECT_CONVERTER_DITHER_(fl, "Int16", "UInt8")),
        PA_SELECT_FORMAT_(dstFormat,
            PA_USE_CONVERTER_("Int8", "Float32"),
            PA_USE_CONVERTER_("Int8", "Int32"),
            PA_USE_CONVERTER_("Int8", "Int24"),
            PA_USE_CONVERTER_("Int8", "Int16"),
            PA_UNITY_CONVERSION_("8"),
            PA_USE_CONVERTER_("Int8", "UInt8")),
        PA_SELECT_FORMAT_(dstFormat,
            PA_USE_CONVERTER_("UInt8", "Float32"),
            PA_USE_CONVERTER_("UInt8", "Int32"),
            PA_USE_CONVERTER_("UInt8", "Int24"),
            PA_USE_CONVERTER_("UInt8", "Int16"),
            PA_USE_CONVERTER_("UInt8", "Int8"),
            PA_UNITY_CONVERSION_("8")))

(***************************************************************************)
(* A converter call.  Buffers are sequences of bytes; src and dest are the *)
(* byte offsets of the pointers of the same name from the start of their   *)
(* buffer.  stored collects the destination offsets the call has written.   *)
(***************************************************************************)

\* sizeof of the element the pointer of a sample format steps over
\* (3 for the unsigned char pointers that step by stride * 3).
SampleSize(fmt) ==
    CASE fmt \in { "Float32", "Int32", "32" } -> 4
      [] fmt \in { "Int24", "24" } -> 3
      [] fmt \in { "Int16", "16" } -> 2
      [] fmt \in { "Int8", "UInt8", "8" } -> 1

ConverterType(conv) == CHOOSE t \in ConverterTypes : t.name = conv

\* Mutant: the two functions without a body and the two further 24-bit
\* functions the file's @todo lists.
EmptyBodies_Todo ==
    { "Int32_To_Int24_Dither", "Int24_To_UInt8_Dither",
      "Int24_To_Int16_Dither", "Int24_To_Int8_Dither" }

\* The functions whose body holds no loop at all.
EmptyBodies == { "Int32_To_Int24_Dither", "Int24_To_UInt8_Dither" }

\* The functions that call PaUtil_Generate16BitTriangularDither once for
\* each sample.
Draws16BitDither ==
    { "Int32_To_Int16_Dither", "Int32_To_Int8_Dither",
      "Int24_To_Int16_Dither", "Int24_To_Int8_Dither" }

\* The loop body of the function conv.
ConvertSample(conv, src, dither, le) ==
    CASE conv = "Int32_To_Float32" -> Int32_To_Float32(src, le)
      [] conv = "Int32_To_Int24" -> Int32_To_Int24(src, le)
      [] conv = "Int32_To_Int24_Dither" -> Int32_To_Int24_Dither(src, dither, le)
      [] conv = "Int32_To_Int16" -> Int32_To_Int16(src, le)
      [] conv = "Int32_To_Int16_Dither" -> Int32_To_Int16_Dither(src, dither, le)
      [] conv = "Int32_To_Int8" -> Int32_To_Int8(src, le)
      [] conv = "Int32_To_Int8_Dither" -> Int32_To_Int8_Dither(src, dither, le)
      [] conv = "Int32_To_UInt8" -> Int32_To_UInt8(src, le)
      [] conv = "Int32_To_UInt8_Dither" -> Int32_To_UInt8_Dither(src, dither, le)
      [] conv = "Int24_To_Float32" -> Int24_To_Float32(src, le)
      [] conv = "Int24_To_Int32" -> Int24_To_Int32(src, le)
      [] conv = "Int24_To_Int16" -> Int24_To_Int16(src, le)
      [] conv = "Int24_To_Int16_Dither" -> Int24_To_Int16_Dither(src, dither, le)
      [] conv = "Int24_To_Int8" -> Int24_To_Int8(src, le)
      [] conv = "Int24_To_Int8_Dither" -> Int24_To_Int8_Dither(src, dither, le)
      [] conv = "Int24_To_UInt8" -> Int24_To_UInt8(src, le)
      [] conv = "Int24_To_UInt8_Dither" -> Int24_To_UInt8_Dither(src, dither, le)
      [] conv = "Int16_To_Float32" -> Int16_To_Float32(src, le)
      [] conv = "Int16_To_Int32" -> Int16_To_Int32(src, le)
      [] conv = "Int16_To_Int24" -> Int16_To_Int24(src, le)
      [] conv = "Int16_To_Int8" -> Int16_To_Int8(src, le)
      [] conv = "Int16_To_Int8_Dither" -> Int16_To_Int8_Dither(src, dither, le)
      [] conv = "Int16_To_UInt8" -> Int16_To_UInt8(src, le)
      [] conv = "Int16_To_UInt8_Dither" -> Int16_To_UInt8_Dither(src, dither, le)
      [] conv = "Int8_To_Float32" -> Int8_To_Float32(src, le)
      [] conv = "Int8_To_Int32" -> Int8_To_Int32(src, le)
      [] conv = "Int8_To_Int24" -> Int8_To_Int24(src, le)
      [] conv = "Int8_To_Int16" -> Int8_To_Int16(src, le)
      [] conv = "Int8_To_UInt8" -> Int8_To_UInt8(src, le)
      [] conv = "UInt8_To_Float32" -> UInt8_To_Float32(src, le)
      [] conv = "UInt8_To_Int32" -> UInt8_To_Int32(src, le)
      [] conv = "UInt8_To_Int24" -> UInt8_To_Int24(src, le)
      [] conv = "UInt8_To_Int16" -> UInt8_To_Int16(src, le)
      [] conv = "UInt8_To_Int8" -> UInt8_To_Int8(src, le)
      [] conv = "Copy_8_To_8" -> Copy_8_To_8(src, le)
      [] conv = "Copy_16_To_16" -> Copy_16_To_16(src, le)
      [] conv = "Copy_24_To_24" -> Copy_24_To_24(src, le)
      [] conv = "Copy_32_To_32" -> Copy_32_To_32(src, le)

\* The bytes of buf with bytes stored from offset off on.
WriteBytes(buf, off, bytes) ==
    [ i \in 1 .. Len(buf) |->
        IF i > off /\ i <= off + Len(bytes) THEN bytes[i - off] ELSE buf[i] ]

\* One iteration of while( count-- ): the dither draw, the store, and the
\* two pointer increments.
ScalarIteration(f) ==
    LET sample == SubSeq(f.sourceBuffer, f.src + 1, f.src + f.sourceSize)
        drawn == IF f.conv \in Draws16BitDither
                 THEN PaUtil_Generate16BitTriangularDither(f.ditherGenerator)
                 ELSE [ state |-> f.ditherGenerator, value |-> 0 ]
        out == ConvertSample(f.conv, sample, drawn.value, f.le)
    IN  [ f EXCEPT
            !.count = @ - 1,
            !.destinationBuffer = WriteBytes(@, f.dest, out),
            !.stored = @ \cup { f.dest + i - 1 : i \in 1 .. Len(out) },
            !.dithers = IF f.conv \in Draws16BitDither
                        THEN Append(@, drawn.value) ELSE @,
            !.ditherGenerator = drawn.state,
            !.src = @ + f.sourceStride * f.sourceSize,
            !.dest = @ + f.destinationStride * f.destinationSize ]

RECURSIVE ScalarLoop(_)
ScalarLoop(f) == IF f.count = 0 THEN f ELSE ScalarLoop(ScalarIteration(f))

\* (*converter)( destinationBuffer, destinationStride, sourceBuffer,
\*               sourceStride, count, ditherGenerator )
ConverterCall(conv, dstBuffer, dstStride, srcBuffer, srcStride, n, dither, le) ==
    LET t == ConverterType(conv)
        f == [ conv |-> conv, le |-> le,
               sourceSize |-> SampleSize(t.source),
               destinationSize |-> SampleSize(t.destination),
               destinationBuffer |-> dstBuffer, destinationStride |-> dstStride,
               sourceBuffer |-> srcBuffer, sourceStride |-> srcStride,
               count |-> n, ditherGenerator |-> dither,
               src |-> 0, dest |-> 0, stored |-> {}, dithers |-> << >> ]
    IN  IF conv \in EmptyBodies THEN f ELSE ScalarLoop(f)

(***************************************************************************)
(* The converters that read float samples (pa_converters.c 508-1323).      *)
(***************************************************************************)

\* Float32 source: the destinations with a vector loop under __ARM_NEON__.
VectorKernels ==
    { "Float32_To_Int32", "Float32_To_Int32_Clip",
      "Float32_To_Int24", "Float32_To_Int24_Dither",
      "Float32_To_Int24_Clip", "Float32_To_Int24_DitherClip",
      "Float32_To_Int16", "Float32_To_Int16_Dither",
      "Float32_To_Int16_Clip", "Float32_To_Int16_DitherClip" }

\* The functions that hand the whole call to Float32_To_Int32 when
\* withAcceleration is set.
DelegatesToPlain == { "Float32_To_Int32_Dither", "Float32_To_Int32_DitherClip" }

\* The functions that call PaUtil_GenerateFloatTriangularDither in their
\* scalar loop, and those that call PaUtil_GenerateFloatTriangularDither24.
DrawsFloatDither ==
    { "Float32_To_Int32_Dither", "Float32_To_Int32_DitherClip",
      "Float32_To_Int16_Dither", "Float32_To_Int16_DitherClip",
      "Float32_To_Int8_Dither", "Float32_To_Int8_DitherClip",
      "Float32_To_UInt8_Dither", "Float32_To_UInt8_DitherClip" }

DrawsFloatDither24 == { "Float32_To_Int24_Dither", "Float32_To_Int24_DitherClip" }

\* The float nearest to an integer constant: (float)0x7FFFFFFF and
\* 2147483646.0f are both 2^31.
FloatOfConstant(n) == MagRound(DigitsOf(n), FloatBits)

\* #define PA_CLIP_( val, min, max )
PA_CLIP_(val, min, max) ==
    IF RealLess(val, min) THEN min ELSE IF RealLess(max, val) THEN max ELSE val

\* (PaInt32) x for a float or double x.  The conversion is undefined when
\* the integer part does not fit; cast names what the target's conversion
\* instruction returns then: the integer indefinite value 0x80000000 of
\* cvttss2si and cvttsd2si, or the nearer end of the range as vcvt does.
CastInt32(x, cast) ==
    IF FitsInt32(x) THEN Int32Part(x)
    ELSE IF cast = "indefinite" \/ x.neg THEN (0 - 2147483647) - 1
    ELSE 2147483647

\* (unsigned char) x for a float x: the value when it lies in 0 .. 255;
\* otherwise undefined, and the low byte of what the conversion instruction
\* returns: a signed conversion (cvttss2si) or an unsigned one (vcvt.u32),
\* which gives 0 for a negative x and 0xFFFFFFFF above the range.
CastUInt8(x, cast) ==
    IF cast = "indefinite" THEN AsUInt8(CastInt32(x, cast))
    ELSE IF x.neg THEN 0
    ELSE IF MagBits(IntegerPart(x)) > 32 THEN 255
    ELSE DigitAt(IntegerPart(x), 1) % 256

\* a + b in 32 bit two's complement.
WrapAdd32(a, b) ==
    LET s == ((a % 65536) + (b % 65536))
        h == ((a \div 65536) + (b \div 65536) + (s \div 65536)) % 65536
    IN  (IF h >= 32768 THEN h - 65536 ELSE h) * 65536 + (s % 65536)

\* vcvtq_s32_f32 on one lane: towards zero, saturating.
Vcvt_s32_f32(x) == CastInt32(x, "saturate")

\* vqmovn_s32 on one lane.
Vqmovn_s32(v) == IF v > 32767 THEN 32767 ELSE IF v < 0 - 32768 THEN 0 - 32768 ELSE v

TwoTo31 == MagTimesPow2(<< 1 >>, 31)

\* What a loop body does with one sample: the multiplier it applies, the
\* value it has after scaling and adding the dither, the value it hands to
\* the conversion to an integer, the PaInt32 that conversion gives, the
\* integer stored, and its bytes.
Converted(mult, sum, handed, word32, narrow, b) ==
    [ scale |-> mult, scaled |-> sum, cast |-> handed, word |-> word32,
      value |-> narrow, bytes |-> b ]

\* The body of the scalar loop of the function conv, without
\* PA_USE_C99_LRINTF: src is *src, dither the value drawn.
Float32ScalarSample(conv, src, dither, cast, le) ==
    LET lo32 == RealOfInt((0 - 2147483647) - 1)
        hi32 == RealOfInt(2147483647)
        \* *src * 0x7FFFFFFF: a float product
        f31 == RealRound(RealTimes(src, FloatOfConstant(2147483647)), FloatBits)
        \* ((double)*src * (2147483646.0)) + dither
        d31 == RealRound(RealAdd(RealRound(RealTimes(src, DigitsOf(2147483646)),
                                           DoubleBits), dither), DoubleBits)
        \* (*src * (32766.0f)) + dither and (*src * (126.0f)) + dither
        f(s) == RealRound(RealTimes(src, DigitsOf(s)), FloatBits)
        fd(s) == RealRound(RealAdd(f(s), dither), FloatBits)
        clipped(x, lo, hi) == Int32Part(PA_CLIP_(RealOfInt(CastInt32(x, cast)),
                                                 RealOfInt(lo), RealOfInt(hi)))
        int32(m, x, y) == Converted(m, x, y, CastInt32(y, cast), CastInt32(y, cast),
                                    StoreInt32(CastInt32(y, cast), le))
        int24(m, x, y) == Converted(m, x, y, CastInt32(y, cast),
                                    ShiftRightArith(CastInt32(y, cast), 8),
                                    StoreInt32AsInt24(CastInt32(y, cast), le))
        int16(m, x, v) == Converted(DigitsOf(m), x, x, CastInt32(x, cast), v,
                                    StoreInt16(v, le))
        int8(m, x, v) == Converted(DigitsOf(m), x, x, CastInt32(x, cast), v,
                                   StoreInt8(v))
    IN  CASE conv = "Float32_To_Int32" ->
               int32(FloatOfConstant(2147483647), f31, f31)
          [] conv = "Float32_To_Int32_Dither" ->
               int32(DigitsOf(2147483646), d31, d31)
          [] conv = "Float32_To_Int32_Clip" ->
               int32(FloatOfConstant(2147483647), f31, PA_CLIP_(f31, lo32, hi32))
          [] conv = "Float32_To_Int32_DitherClip" ->
               int32(DigitsOf(2147483646), d31, PA_CLIP_(d31, lo32, hi32))
          [] conv = "Float32_To_Int24" ->
               \* (double)(*src) * 2147483647.0
               LET d == RealRound(RealTimes(src, DigitsOf(2147483647)), DoubleBits)
               IN  int24(DigitsOf(2147483647), d, d)
          [] conv = "Float32_To_Int24_Dither" ->
               int24(DigitsOf(2147483646), d31, d31)
          [] conv = "Float32_To_Int24_Clip" ->
               int24(FloatOfConstant(2147483647), f31, PA_CLIP_(f31, lo32, hi32))
          [] conv = "Float32_To_Int24_DitherClip" ->
               int24(DigitsOf(2147483646), d31, PA_CLIP_(d31, lo32, hi32))
          [] conv = "Float32_To_Int16" ->
               int16(32767, f(32767), AsInt16(CastInt32(f(32767), cast)))
          [] conv = "Float32_To_Int16_Dither" ->
               int16(32766, fd(32766), AsInt16(CastInt32(fd(32766), cast)))
          [] conv = "Float32_To_Int16_Clip" ->
               int16(32767, f(32767), clipped(f(32767), 0 - 32768, 32767))
          [] conv = "Float32_To_Int16_DitherClip" ->
               int16(32766, fd(32766), clipped(fd(32766), 0 - 32768, 32767))
          [] conv = "Float32_To_Int8" ->
               int8(127, f(127), AsInt8(CastInt32(f(127), cast)))
          [] conv = "Float32_To_Int8_Dither" ->
               int8(126, fd(126), AsInt8(CastInt32(fd(126), cast)))
          [] conv = "Float32_To_Int8_Clip" ->
               int8(127, f(127), clipped(f(127), 0 - 128, 127))
          [] conv = "Float32_To_Int8_DitherClip" ->
               int8(126, fd(126), clipped(fd(126), 0 - 128, 127))
          [] conv = "Float32_To_UInt8" ->
               int8(127, f(127), AsUInt8(128 + CastUInt8(f(127), cast)))
          [] conv = "Float32_To_UInt8_Dither" ->
               int8(126, fd(126), AsUInt8(128 + AsInt8(CastInt32(fd(126), cast))))
          [] conv = "Float32_To_UInt8_Clip" ->
               int8(127, f(127),
                    Int32Part(PA_CLIP_(RealOfInt(WrapAdd32(128, CastInt32(f(127), cast))),
                                       RealOfInt(0), RealOfInt(255))))
          [] conv = "Float32_To_UInt8_DitherClip" ->
               int8(126, fd(126),
                    Int32Part(PA_CLIP_(RealOfInt(WrapAdd32(128, CastInt32(fd(126), cast))),
                                       RealOfInt(0), RealOfInt(255))))

\* One lane of the vector loop of the function conv: neonMult, vmulq_f32 or
\* vmlaq_f32 (a product rounded to float, then a sum rounded to float),
\* vmaxq_f32 and vminq_f32 in the clipping functions, vcvtq_s32_f32, and
\* vmovn_s32 or vqmovn_s32 for 16 bit destinations.
Float32VectorLane(conv, src, dither, le) ==
    LET lo == Real(TRUE, ShiftDigits(FloatOfConstant(2147483647), FractionDigits))
        hi == Real(FALSE, ShiftDigits(FloatOfConstant(2147483647), FractionDigits))
        mul(m) == RealRound(RealTimes(src, m), FloatBits)
        mla(m) == RealRound(RealAdd(dither, mul(m)), FloatBits)
        int32(m, x, y) == Converted(m, x, y, Vcvt_s32_f32(y), Vcvt_s32_f32(y),
                                    StoreInt32(Vcvt_s32_f32(y), le))
        int24(m, x, y) == Converted(m, x, y, Vcvt_s32_f32(y),
                                    ShiftRightArith(Vcvt_s32_f32(y), 8),
                                    StoreInt32AsInt24(Vcvt_s32_f32(y), le))
        int16(m, x, v) == Converted(m, x, x, Vcvt_s32_f32(x), v, StoreInt16(v, le))
        m31 == FloatOfConstant(2147483647)
        m30 == FloatOfConstant(2147483646)
        m15 == FloatOfConstant(32767)
        m14 == FloatOfConstant(32766)
    IN  CASE conv = "Float32_To_Int32" -> int32(m31, mul(m31), mul(m31))
          [] conv = "Float32_To_Int32_Clip" ->
               int32(m31, mul(m31), PA_CLIP_(mul(m31), lo, hi))
          [] conv = "Float32_To_Int24" -> int24(m31, mul(m31), mul(m31))
          [] conv = "Float32_To_Int24_Dither" -> int24(m30, mla(m30), mla(m30))
          [] conv = "Float32_To_Int24_Clip" ->
               int24(m31, mul(m31), PA_CLIP_(mul(m31), lo, hi))
          [] conv = "Float32_To_Int24_DitherClip" ->
               int24(m30, mla(m30), PA_CLIP_(mla(m30), lo, hi))
          [] conv = "Float32_To_Int16" ->
               int16(m15, mul(m15), AsInt16(Vcvt_s32_f32(mul(m15))))
          [] conv = "Float32_To_Int16_Dither" ->
               int16(m14, mla(m14), AsInt16(Vcvt_s32_f32(mla(m14))))
          [] conv = "Float32_To_Int16_Clip" ->
               int16(m15, mul(m15), Vqmovn_s32(Vcvt_s32_f32(mul(m15))))
          [] conv = "Float32_To_Int16_DitherClip" ->
               int16(m14, mla(m14), Vqmovn_s32(Vcvt_s32_f32(mla(m14))))

\* The float b * 256, from and to its bytes: the exponent field plus 8.
Float32Times256(b) ==
    IF b[1] = 0 /\ b[2] = 0 /\ b[3] = 0 /\ b[4] % 128 = 0 THEN b
    ELSE LET expo == (b[4] % 128) * 2 + (b[3] \div 128) + 8
         IN  << b[1], b[2], (b[3] % 128) + (expo % 2) * 128,
                (b[4] \div 128) * 128 + (expo \div 2) >>

\* double PaUtil_GenerateFloatTriangularDither24( ditherGenerator ): the
\* float dither on the scale of the build.
PaUtil_GenerateFloatTriangularDither24(state, scale) ==
    LET r == PaUtil_GenerateFloatTriangularDither(state)
    IN  [ state |-> r.state,
          value |-> IF scale = 256 THEN Float32Times256(r.value) ELSE r.value ]

\* The byte offset of lane i for a pointer at off that steps by step bytes.
LaneOffset(off, i, step) == off + (i - 1) * step

NeonGetSourceVector_Contiguous(buffer, src, stride, le) ==
    [ vector |-> [ i \in Lanes |->
                     LoadFloat32(SubSeq(buffer, LaneOffset(src, i, 4) + 1,
                                        LaneOffset(src, i, 4) + 4), le) ],
      src |-> src + 4 * stride * ARM_NEON_BEST_VECTOR_SIZE ]

\* float32x4_t NeonGetSourceVector( float **src, sourceStride ): vld1q_f32
\* for stride 1, the first vector of vld2q_f32 for stride 2, and one
\* vld1q_lane_f32 per lane otherwise; *src is advanced by four samples.
NeonGetSourceVector(buffer, src, stride, le) ==
    [ vector |-> [ i \in Lanes |->
                     LoadFloat32(SubSeq(buffer, LaneOffset(src, i, 4 * stride) + 1,
                                        LaneOffset(src, i, 4 * stride) + 4), le) ],
      src |-> src + 4 * stride * ARM_NEON_BEST_VECTOR_SIZE ]

\* The buffer after the bytes of every lane are stored, lane i at off plus
\* (i - 1) * step.
RECURSIVE StoreLanes(_, _, _, _, _)
StoreLanes(buffer, off, step, bytes, i) ==
    IF i > ARM_NEON_BEST_VECTOR_SIZE THEN buffer
    ELSE StoreLanes(WriteBytes(buffer, LaneOffset(off, i, step), bytes[i]),
                    off, step, bytes, i + 1)

LaneStores(off, step, size) ==
    { LaneOffset(off, i, step) + k : i \in Lanes, k \in 0 .. size - 1 }

\* PaInt32 *NeonWriteDestVectorInt32( neonResultVector, dest, stride )
NeonWriteDestVectorInt32(buffer, dest, v, stride, le) ==
    [ buffer |-> StoreLanes(buffer, dest, 4 * stride,
                            [ i \in Lanes |-> StoreInt32(v[i], le) ], 1),
      stored |-> LaneStores(dest, 4 * stride, 4),
      dest |-> dest + 4 * stride * ARM_NEON_BEST_VECTOR_SIZE ]

\* vtbl1_u8( a, idx ): byte idx[i] of a, 0 for an index beyond a.
Vtbl1_u8(a, idx) == [ i \in 1 .. 8 |-> IF idx[i] < 8 THEN a[idx[i] + 1] ELSE 0 ]

\* Mutant: the table the source gives for PA_BIG_ENDIAN, used on a little
\* endian build.
compressPositions_BigEndian == << 7, 6, 5, 3, 2, 1, 8, 8, 8, 8, 7, 6, 5, 3, 1, 2 >>

\* uint8_t compressPositions[] under PA_LITTLE_ENDIAN
compressPositions == << 8, 8, 1, 2, 3, 5, 6, 7, 1, 2, 3, 5, 6, 7, 8, 8 >>

\* Mutant: the packed store writes the upper half as 8 bytes, like the
\* lower, where the source stores 4.
NeonWriteDestVectorInt24_TwoFullStores(buffer, dest, v, stride, le) ==
    IF stride = 1 /\ le
    THEN LET bytes == [ i \in 1 .. 16 |->
                          IF i <= 12
                          THEN StoreInt32AsInt24(v[((i - 1) \div 3) + 1], le)[((i - 1) % 3) + 1]
                          ELSE 0 ]
         IN  [ buffer |-> WriteBytes(buffer, dest, bytes),
               stored |-> { dest + k : k \in 0 .. 15 },
               dest |-> dest + 8 + 4 ]
    ELSE [ buffer |-> StoreLanes(buffer, dest, 3 * stride,
                                 [ i \in Lanes |-> StoreInt32AsInt24(v[i], le) ], 1),
           stored |-> LaneStores(dest, 3 * stride, 3),
           dest |-> dest + 3 * stride * ARM_NEON_BEST_VECTOR_SIZE ]

\* unsigned char *NeonWriteDestVectorInt24( neonResultVector, dest, stride ):
\* for stride 1 on a little endian build two table look-ups, a rotation by
\* two bytes, a store of 8 bytes and a store of 4; otherwise the three high
\* bytes of each lane, stored lane by lane.
NeonWriteDestVectorInt24(buffer, dest, v, stride, le) ==
    IF stride = 1 /\ le
    THEN LET neonCastedResult == WordBytes(v[1]) \o WordBytes(v[2])
                                   \o WordBytes(v[3]) \o WordBytes(v[4])
             neonValuesHigh == Vtbl1_u8(SubSeq(neonCastedResult, 9, 16),
                                        SubSeq(compressPositions, 9, 16))
             neonValuesLow == Vtbl1_u8(SubSeq(neonCastedResult, 1, 8),
                                       SubSeq(compressPositions, 1, 8))
             combined == neonValuesLow \o neonValuesHigh
             neonCompressed24Result == SubSeq(combined, 3, 16) \o SubSeq(combined, 1, 2)
         IN  [ buffer |-> WriteBytes(WriteBytes(buffer, dest,
                                                SubSeq(neonCompressed24Result, 1, 8)),
                                     dest + 8, SubSeq(neonCompressed24Result, 9, 12)),
               stored |-> { dest + k : k \in 0 .. 11 },
               dest |-> dest + 8 + 4 ]
    ELSE [ buffer |-> StoreLanes(buffer, dest, 3 * stride,
                                 [ i \in Lanes |-> StoreInt32AsInt24(v[i], le) ], 1),
           stored |-> LaneStores(dest, 3 * stride, 3),
           dest |-> dest + 3 * stride * ARM_NEON_BEST_VECTOR_SIZE ]

\* PaInt16 *NeonWriteDestVectorInt16( neonResultVector, dest, stride )
NeonWriteDestVectorInt16(buffer, dest, v, stride, le) ==
    [ buffer |-> StoreLanes(buffer, dest, 2 * stride,
                            [ i \in Lanes |-> StoreInt16(v[i], le) ], 1),
      stored |-> LaneStores(dest, 2 * stride, 2),
      dest |-> dest + 2 * stride * ARM_NEON_BEST_VECTOR_SIZE ]

NoDither == << 0, 0, 0, 0 >>

\* What the call did with one sample, for the properties.
SampleRecord(loop, index, dither, c) ==
    [ loop |-> loop, index |-> index, dither |-> dither, scale |-> c.scale,
      scaled |-> c.scaled, cast |-> c.cast, word |-> c.word, value |-> c.value ]

\* One iteration of while( count-- ) of a function that reads floats.
Float32ScalarIteration(f) ==
    LET advance(drawn, out) ==
            [ f EXCEPT
                !.count = @ - 1,
                !.destinationBuffer = WriteBytes(@, f.dest, out.bytes),
                !.stored = @ \cup { f.dest + i - 1 : i \in 1 .. Len(out.bytes) },
                !.dithers = IF f.conv \in DrawsFloatDither \cup DrawsFloatDither24
                            THEN Append(@, drawn.value) ELSE @,
                !.ditherGenerator = drawn.state,
                !.converted = Append(@, SampleRecord("scalar", Len(f.converted),
                                                     drawn.value, out)),
                !.src = @ + f.sourceStride * f.sourceSize,
                !.dest = @ + f.destinationStride * f.destinationSize ]
        convert(sample, drawn) ==
            advance(drawn,
                    Float32ScalarSample(f.conv, LoadFloat32(sample, f.le),
                                        RealOfFloat32(drawn.value), f.floatToInt, f.le))
    IN  convert(SubSeq(f.sourceBuffer, f.src + 1, f.src + f.sourceSize),
                IF f.conv \in DrawsFloatDither
                THEN PaUtil_GenerateFloatTriangularDither(f.ditherGenerator)
                ELSE IF f.conv \in DrawsFloatDither24
                THEN PaUtil_GenerateFloatTriangularDither24(f.ditherGenerator,
                                                            f.dither24Scale)
                ELSE [ state |-> f.ditherGenerator, value |-> NoDither ])

RECURSIVE Float32ScalarLoop(_)
Float32ScalarLoop(f) ==
    IF f.count = 0 THEN f ELSE Float32ScalarLoop(Float32ScalarIteration(f))

\* One iteration of while( count >= ARM_NEON_BEST_VECTOR_SIZE ).
Float32VectorIteration(f) ==
    LET dithering == f.conv \in { "Float32_To_Int24_Dither", "Float32_To_Int24_DitherClip",
                                  "Float32_To_Int16_Dither", "Float32_To_Int16_DitherClip" }
        advance(source, state, neonDither, out, written) ==
            [ f EXCEPT
                !.count = @ - ARM_NEON_BEST_VECTOR_SIZE,
                !.destinationBuffer = written.buffer,
                !.stored = @ \cup written.stored,
                !.dithers = IF dithering THEN @ \o neonDither ELSE @,
                !.ditherGenerator = state,
                !.converted = @ \o [ i \in Lanes |->
                                       SampleRecord("vector", Len(f.converted) + i - 1,
                                                    neonDither[i], out[i]) ],
                !.src = source.src,
                !.dest = written.dest ]
        write(neonResultVector, narrowed) ==
            CASE f.destinationSize = 4 ->
                   NeonWriteDestVectorInt32(f.destinationBuffer, f.dest, neonResultVector,
                                            f.destinationStride, f.le)
              [] f.destinationSize = 3 ->
                   NeonWriteDestVectorInt24(f.destinationBuffer, f.dest, neonResultVector,
                                            f.destinationStride, f.le)
              [] f.destinationSize = 2 ->
                   NeonWriteDestVectorInt16(f.destinationBuffer, f.dest, narrowed,
                                            f.destinationStride, f.le)
        store(source, state, neonDither, out) ==
            advance(source, state, neonDither, out,
                    write([ i \in Lanes |-> out[i].word ],
                          [ i \in Lanes |-> out[i].value ]))
        convert(source, state, neonDither) ==
            store(source, state, neonDither,
                  [ i \in Lanes |->
                      Float32VectorLane(f.conv, source.vector[i],
                                        RealOfFloat32(neonDither[i]), f.le) ])
        scale(source, drawn) ==
            convert(source, drawn.state,
                    [ i \in Lanes |->
                        IF f.conv \in DrawsFloatDither24 /\ f.dither24Scale = 256
                        THEN Float32Times256(drawn.value[i]) ELSE drawn.value[i] ])
    IN  scale(NeonGetSourceVector(f.sourceBuffer, f.src, f.sourceStride, f.le),
              IF dithering
              THEN PaUtil_GenerateFloatTriangularDitherVector(f.ditherGenerator)
              ELSE [ state |-> f.ditherGenerator,
                     value |-> [ i \in Lanes |-> NoDither ] ])

Float32VectorLoop_Once(f) ==
    IF f.count < ARM_NEON_BEST_VECTOR_SIZE THEN f ELSE Float32VectorIteration(f)

RECURSIVE Float32VectorLoop(_)
Float32VectorLoop(f) ==
    IF f.count < ARM_NEON_BEST_VECTOR_SIZE THEN f
    ELSE Float32VectorLoop(Float32VectorIteration(f))

\* A call of the function conv, which reads floats: under __ARM_NEON__ and
\* with withAcceleration set, Float32_To_Int32_Dither and
\* Float32_To_Int32_DitherClip call Float32_To_Int32 and return, and the
\* functions with a vector loop run it before the scalar loop.
Float32ConverterCall(conv, dstBuffer, dstStride, srcBuffer, srcStride, n, dither, le, neon, acceleration, cast, scale24) ==
    LET accelerated == neon /\ acceleration # 0
        run == IF accelerated /\ conv \in DelegatesToPlain
               THEN "Float32_To_Int32" ELSE conv
        f == [ conv |-> run, le |-> le, floatToInt |-> cast, dither24Scale |-> scale24,
               sourceSize |-> 4,
               destinationSize |-> SampleSize(ConverterType(conv).destination),
               destinationBuffer |-> dstBuffer, destinationStride |-> dstStride,
               sourceBuffer |-> srcBuffer, sourceStride |-> srcStride,
               count |-> n, ditherGenerator |-> dither,
               src |-> 0, dest |-> 0, stored |-> {}, dithers |-> << >>,
               converted |-> << >> ]
    IN  Float32ScalarLoop(IF accelerated /\ run \in VectorKernels
                          THEN Float32VectorLoop(f) ELSE f)

(***************************************************************************)
(* The zeroers: each stores the silence of its format in count strided     *)
(* samples.                                                                *)
(***************************************************************************)

\* What one iteration stores: *dest = 128; *dest = 0; dest[0] = 0 ...
ZeroU8 == << 128 >>
Zero8 == << 0 >>
Zero16 == << 0, 0 >>
Zero24 == << 0, 0, 0 >>
Zero32 == << 0, 0, 0, 0 >>

\* PaUtilZeroerTable paZeroers (PA_NO_STANDARD_ZEROERS not defined).
paZeroers ==
    [ ZeroU8 |-> "ZeroU8", Zero8 |-> "Zero8", Zero16 |-> "Zero16",
      Zero24 |-> "Zero24", Zero32 |-> "Zero32" ]

\* Mutant: paUInt8 gets the zeroer of paInt8.
PaUtil_SelectZeroer_SignedOnly(dstFormat) ==
    LET fmt == BitAndNot(dstFormat, paNonInterleaved)
    IN  CASE fmt \in { paFloat32, paInt32 } -> paZeroers.Zero32
          [] fmt = paInt24 -> paZeroers.Zero24
          [] fmt = paInt16 -> paZeroers.Zero16
          [] fmt \in { paInt8, paUInt8 } -> paZeroers.Zero8
          [] OTHER -> NULL

\* PaUtilZeroer* PaUtil_SelectZeroer( PaSampleFormat destinationFormat )
PaUtil_SelectZeroer(dstFormat) ==
    LET fmt == BitAndNot(dstFormat, paNonInterleaved)
    IN  CASE fmt = paFloat32 -> paZeroers.Zero32
          [] fmt = paInt32 -> paZeroers.Zero32
          [] fmt = paInt24 -> paZeroers.Zero24
          [] fmt = paInt16 -> paZeroers.Zero16
          [] fmt = paInt8 -> paZeroers.Zero8
          [] fmt = paUInt8 -> paZeroers.ZeroU8
          [] OTHER -> NULL

\* The stores of one iteration of the zeroer z.
ZeroSample(z) ==
    CASE z = "ZeroU8" -> ZeroU8
      [] z = "Zero8" -> Zero8
      [] z = "Zero16" -> Zero16
      [] z = "Zero24" -> Zero24
      [] z = "Zero32" -> Zero32

\* while( count-- ) { *dest = ...; dest += destinationStride; } with dest
\* counted in bytes.
RECURSIVE ZeroLoop(_)
ZeroLoop(f) ==
    IF f.count = 0
    THEN f
    ELSE ZeroLoop([ f EXCEPT
            !.count = @ - 1,
            !.destinationBuffer = WriteBytes(@, f.dest, ZeroSample(f.zeroer)),
            !.stored = @ \cup { f.dest + i - 1 : i \in 1 .. Len(ZeroSample(f.zeroer)) },
            !.dest = @ + f.destinationStride * Len(ZeroSample(f.zeroer)) ])

\* (*zeroer)( destinationBuffer, destinationStride, count )
ZeroerCall(z, dstBuffer, dstStride, n) ==
    ZeroLoop([ zeroer |-> z, destinationBuffer |-> dstBuffer,
               destinationStride |-> dstStride, count |-> n, dest |-> 0,
               stored |-> {} ])

(***************************************************************************)
(* The caller: it picks the formats and flags of a stream, selects the     *)
(* converter once, fills a source buffer and calls the converter.           *)
(***************************************************************************)

MaxCount == 5
MaxStride == 2
BufferSamples == MaxCount * MaxStride

\* What the buffers hold where nothing has been written.
SourceFill == 85
DestinationFill == 170

FormatNameOf(fmt) ==
    PA_SELECT_FORMAT_(fmt, "Float32", "Int32", "Int24", "Int16", "Int8", "UInt8")

\* The bytes of entry v (-128 .. 127) of the ramp the performance example
\* writes for a source format.
RampSample(fmt, v, le) ==
    CASE fmt = "Int8" -> StoreInt8(v)
      [] fmt = "UInt8" -> << v + 128 >>
      [] fmt = "Int16" -> StoreInt16(v * 256, le)
      [] fmt = "Int24" ->
            LET value == v * 256 * 256
            IN  IF le
                THEN << AsUInt8(value), AsUInt8(ShiftRightArith(value, 8)),
                        AsUInt8(ShiftRightArith(value, 16)) >>
                ELSE << AsUInt8(ShiftRightArith(value, 16)),
                        AsUInt8(ShiftRightArith(value, 8)), AsUInt8(value) >>
      [] fmt = "Int32" -> StoreInt32(v * 256 * 256 * 256, le)
      [] fmt = "Float32" -> StoreFloat32(Float32OfScaled(v, 7), le)

\* The entries of the ramp the buffers start at.
RampStarts == { 0, 126, 253 }

\* A source buffer whose entries i = 0 .. n-1 hold the ramp from entry
\* start on, at stride srcStride.
RampBuffer(fmt, start, n, srcStride, le) ==
    LET size == SampleSize(fmt)
    IN  [ j \in 1 .. BufferSamples * size |->
            LET pos == (j - 1) \div size
                k == ((j - 1) % size) + 1
            IN  IF pos % srcStride = 0 /\ pos \div srcStride < n
                THEN RampSample(fmt, ((start + pos \div srcStride) % 256) - 128, le)[k]
                ELSE SourceFill ]

\* A source buffer of bytes that all differ from their neighbours.
PatternBuffer(fmt) == [ j \in 1 .. BufferSamples * SampleSize(fmt) |-> (37 * j + 11) % 256 ]

\* The sample of a format that holds the top bits of the 32 bit value v
\* (for Float32: the word v as it stands).
SampleOfValue(fmt, v, le) ==
    CASE fmt \in { "Int32", "Float32" } -> StoreInt32(v, le)
      [] fmt = "Int24" -> StoreInt32AsInt24(v, le)
      [] fmt = "Int16" -> StoreInt16(AsInt16(ShiftRightArith(v, 16)), le)
      [] fmt = "Int8" -> StoreInt8(AsInt8(ShiftRightArith(v, 24)))
      [] fmt = "UInt8" -> << AsUInt8(ShiftRightArith(v, 24) + 128) >>

\* Sample values at the ends of the range and next to them: 0x7FFFFFFF,
\* 0x12345678, 0x80000000, -1, 0x7FFF8000, 255, 0x8000FFFF, 256,
\* 0x00FFFFFF, 0x7F000000.
ExtremeValues ==
    << 2147483647, 305419896, (0 - 2147483647) - 1, 0 - 1, 2147450880, 255,
       0 - 2147418113, 256, 16777215, 2130706432 >>

\* A source buffer whose samples hold the extreme values in turn.
ExtremesBuffer(fmt, le) ==
    LET size == SampleSize(fmt)
    IN  [ j \in 1 .. BufferSamples * size |->
            SampleOfValue(fmt, ExtremeValues[(((j - 1) \div size) % Len(ExtremeValues)) + 1],
                          le)[((j - 1) % size) + 1] ]

\* The data a caller converts: the ramp from one of its starts, (-1) the
\* pattern, or (-2) the extreme values.
PatternData == 0 - 1
ExtremesData == 0 - 2
DataSets == RampStarts \cup { PatternData, ExtremesData }

SourceData(fmt, data, n, srcStride, le) ==
    CASE data = PatternData -> PatternBuffer(fmt)
      [] data = ExtremesData -> ExtremesBuffer(fmt, le)
      [] OTHER -> RampBuffer(fmt, data, n, srcStride, le)

\* PaUtil_SelectConverter( sourceFormat, destinationFormat, flags ), called
\* once for a stream.
SelectConverter ==
    /\ cpc = "select"
    /\ converter' = PaUtil_SelectConverter(sourceFormat, destinationFormat, flags)
    /\ cpc' = "selected"
    /\ UNCHANGED << littleEndian, sourceFormat, destinationFormat, flags,
                    sourceBuffer, destinationBuffer, sourceStride,
                    destinationStride, count, ditherGenerator, stored,
                    dithers, zeroer >>
    /\ UNCHANGED selectVars
    /\ UNCHANGED drawVars
    /\ UNCHANGED floatVars

\* The call of the selected converter on a freshly filled source buffer,
\* for the copies and the converters that read integer samples; the calls
\* of the converters that read floats are those of ConvertFloatBuffer.
CallConverter ==
    /\ cpc = "selected"
    /\ converter # NULL
    /\ ConverterType(converter).source # "Float32"
    /\ \E n \in 0 .. MaxCount, ss \in 1 .. MaxStride, ds \in 1 .. MaxStride,
          data \in DataSets :
         \E srcBuffer \in { SourceData(FormatNameOf(sourceFormat), data, n, ss,
                                       littleEndian) } :
           \E r \in { ConverterCall(converter,
                                    [ j \in 1 .. BufferSamples
                                          * SampleSize(ConverterType(converter).destination)
                                        |-> DestinationFill ],
                                    ds, srcBuffer, ss, n, ditherGenerator,
                                    littleEndian) } :
             /\ sourceBuffer' = srcBuffer
             /\ sourceStride' = ss
             /\ destinationStride' = ds
             /\ count' = n
             /\ destinationBuffer' = r.destinationBuffer
             /\ ditherGenerator' = r.ditherGenerator
             /\ stored' = r.stored
             /\ dithers' = r.dithers
    /\ cpc' = "called"
    /\ UNCHANGED << littleEndian, sourceFormat, destinationFormat, flags, converter,
                    zeroer >>
    /\ UNCHANGED selectVars
    /\ UNCHANGED drawVars
    /\ UNCHANGED floatVars

(***************************************************************************)
(* Specifications.                                                          *)
(***************************************************************************)

\* The values of the variables of the part of the program a specification
\* does not run.
SelectIdle ==
    /\ fpc = "idle"
    /\ argAvailable = {}
    /\ argFormat = {}
    /\ availableFormats = {}
    /\ format = {}
    /\ result = {}
    /\ betterShifts = 0
    /\ worseShifts = 0

\* No converter of float samples is called: the build without __ARM_NEON__,
\* withAcceleration as initialised.
FloatIdle ==
    /\ armNeon = FALSE
    /\ withAcceleration = 1
    /\ floatToInt = "saturate"
    /\ dither24Scale = 1
    /\ converted = << >>

DrawIdle ==
    /\ ditherStart = DitherStateOf(0, 0, 0)
    /\ draws = << >>

\* No draw is made through the entry points of the generator by the caller
\* itself: ditherStart keeps the state the caller hands to the converter.
DitherHandedIn ==
    /\ ditherStart = ditherGenerator
    /\ draws = << >>

ConvertIdle ==
    /\ cpc = "idle"
    /\ littleEndian = TRUE
    /\ sourceFormat = {}
    /\ destinationFormat = {}
    /\ flags = {}
    /\ converter = NULL
    /\ sourceBuffer = << >>
    /\ destinationBuffer = << >>
    /\ sourceStride = 0
    /\ destinationStride = 0
    /\ count = 0
    /\ ditherGenerator = DitherStateOf(0, 0, 0)
    /\ stored = {}
    /\ dithers = << >>
    /\ zeroer = NULL
    /\ DrawIdle
    /\ FloatIdle

\* One call of PaUtil_SelectClosestAvailableFormat.
InitSelect ==
    /\ fpc = "entry"
    /\ argAvailable \in AvailableMasks
    /\ argFormat \in RequestedFormats
    /\ availableFormats = argAvailable
    /\ format = argFormat
    /\ result = {}
    /\ betterShifts = 0
    /\ worseShifts = 0
    /\ ConvertIdle

NextSelect ==
    \/ SelectClosest_Enter
    \/ SelectClosest_ScanBetter
    \/ SelectClosest_AfterBetter
    \/ SelectClosest_ScanWorse
    \/ SelectClosest_AfterWorse

SpecSelect == InitSelect /\ [][NextSelect]_vars

\* The formats and flags PaUtil_SelectConverter is asked for: each of the
\* six formats and two that are none of them, with and without
\* paNonInterleaved; every combination of paClipOff, paDitherOff and
\* paNeverDropInput (0x04).
SelectableFormats ==
    { f \cup ni : f \in FormatSet \cup { {}, paCustomFormat },
                  ni \in { {}, paNonInterleaved } }

SelectableFlags == SUBSET { 0, 1, 2 }

ConverterStart ==
    /\ cpc = "select"
    /\ converter = NULL
    /\ sourceBuffer = << >>
    /\ destinationBuffer = << >>
    /\ sourceStride = 0
    /\ destinationStride = 0
    /\ count = 0
    /\ stored = {}
    /\ dithers = << >>
    /\ zeroer = NULL
    /\ DitherHandedIn
    /\ FloatIdle
    /\ SelectIdle

\* Converter selection over all its arguments.
InitSelectConverter ==
    /\ littleEndian \in BOOLEAN
    /\ sourceFormat \in SelectableFormats
    /\ destinationFormat \in SelectableFormats
    /\ flags \in SelectableFlags
    /\ ditherGenerator = DitherStateOf(0, 0, 0)
    /\ ConverterStart

NextSelectConverter == SelectConverter

SpecSelectConverter == InitSelectConverter /\ [][NextSelectConverter]_vars

\* A stream between two of the six formats: selection, then a call.
InitConvert ==
    /\ littleEndian \in BOOLEAN
    /\ sourceFormat \in FormatSet
    /\ destinationFormat \in FormatSet
    /\ flags \in SUBSET (paClipOff \cup paDitherOff)
    /\ ditherGenerator \in DitherStates
    /\ ConverterStart

NextConvert ==
    \/ SelectConverter
    \/ CallConverter

SpecConvert == InitConvert /\ [][NextConvert]_vars

\* The call of the selected converter on the buffer, with the count and the
\* strides, the caller has set up.
ConvertBuffer ==
    /\ cpc = "selected"
    /\ converter # NULL
    /\ ConverterType(converter).source # "Float32"
    /\ \E r \in { ConverterCall(converter,
                                [ j \in 1 .. count * destinationStride
                                      * SampleSize(ConverterType(converter).destination)
                                    |-> DestinationFill ],
                                destinationStride, sourceBuffer, sourceStride,
                                count, ditherGenerator, littleEndian) } :
         /\ destinationBuffer' = r.destinationBuffer
         /\ ditherGenerator' = r.ditherGenerator
         /\ stored' = r.stored
         /\ dithers' = r.dithers
    /\ cpc' = "called"
    /\ UNCHANGED << littleEndian, sourceFormat, destinationFormat, flags, converter,
                    sourceBuffer, sourceStride, destinationStride, count, zeroer >>
    /\ UNCHANGED selectVars
    /\ UNCHANGED drawVars
    /\ UNCHANGED floatVars

\* 32 bit sample values at and next to the ends of the range, at the ends
\* of the ranges of the narrower formats, and where a carry out of the
\* dropped bits reaches the kept ones.
WideSamples ==
    { (0 - 2147483647) - 1, 0 - 2147483647, 0 - 2147418113, 0 - 2130706432,
      0 - 1073741824, 0 - 16777216, 0 - 8388608, 0 - 65536, 0 - 32768,
      0 - 256, 0 - 1, 0, 1, 255, 256, 32767, 32768, 65535, 65536, 8388607,
      16777216, 305419896, 1073741823, 2130706432, 2147418112, 2147450880,
      2147483392, 2147483647 }

\* The one-sample source buffers of a format.
SampleInputs(fmt, le) ==
    CASE fmt \in { "Int8", "UInt8" } -> { << b >> : b \in Byte }
      [] OTHER -> { SampleOfValue(fmt, v, le) : v \in WideSamples }

\* A stream between an integer format and one of the six formats, called
\* on one sample.
InitSample ==
    /\ littleEndian \in BOOLEAN
    /\ sourceFormat \in FormatSet \ { paFloat32 }
    /\ destinationFormat \in FormatSet
    /\ flags \in SUBSET (paClipOff \cup paDitherOff)
    /\ ditherGenerator \in DitherStates
    /\ cpc = "select"
    /\ converter = NULL
    /\ sourceBuffer \in SampleInputs(FormatNameOf(sourceFormat), littleEndian)
    /\ destinationBuffer = << >>
    /\ sourceStride = 1
    /\ destinationStride = 1
    /\ count = 1
    /\ stored = {}
    /\ dithers = << >>
    /\ zeroer = NULL
    /\ DrawIdle
    /\ FloatIdle
    /\ SelectIdle

NextSample ==
    \/ SelectConverter
    \/ ConvertBuffer

SpecSample == InitSample /\ [][NextSample]_vars

\* PaUtil_SelectZeroer( destinationFormat ), called once for a stream.
SelectZeroer ==
    /\ cpc = "select"
    /\ zeroer' = PaUtil_SelectZeroer(destinationFormat)
    /\ cpc' = "selected"
    /\ UNCHANGED << littleEndian, sourceFormat, destinationFormat, flags, converter,
                    sourceBuffer, destinationBuffer, sourceStride,
                    destinationStride, count, ditherGenerator, stored, dithers >>
    /\ UNCHANGED selectVars
    /\ UNCHANGED drawVars
    /\ UNCHANGED floatVars

\* The call of the selected zeroer on the destination buffer.
CallZeroer ==
    /\ cpc = "selected"
    /\ zeroer # NULL
    /\ \E n \in 0 .. MaxCount, ds \in 1 .. MaxStride :
         \E r \in { ZeroerCall(zeroer, destinationBuffer, ds, n) } :
           /\ destinationStride' = ds
           /\ count' = n
           /\ destinationBuffer' = r.destinationBuffer
           /\ stored' = r.stored
    /\ cpc' = "called"
    /\ UNCHANGED << littleEndian, sourceFormat, destinationFormat, flags, converter,
                    sourceBuffer, sourceStride, ditherGenerator, dithers, zeroer >>
    /\ UNCHANGED selectVars
    /\ UNCHANGED drawVars
    /\ UNCHANGED floatVars

\* What a destination buffer holds before it is zeroed: the fill, or bytes
\* that all differ from their neighbours.
DestinationContents ==
    { [ j \in 1 .. BufferSamples * 4 |-> DestinationFill ], PatternBuffer("Int32") }

\* A destination of any format PaUtil_SelectZeroer may be asked for.
InitZero ==
    /\ littleEndian \in BOOLEAN
    /\ sourceFormat = {}
    /\ destinationFormat \in SelectableFormats \cup { paInt16 \cup paInt8 }
    /\ flags = {}
    /\ ditherGenerator = DitherStateOf(0, 0, 0)
    /\ cpc = "select"
    /\ converter = NULL
    /\ sourceBuffer = << >>
    /\ destinationBuffer \in DestinationContents
    /\ sourceStride = 0
    /\ destinationStride = 0
    /\ count = 0
    /\ stored = {}
    /\ dithers = << >>
    /\ zeroer = NULL
    /\ DrawIdle
    /\ FloatIdle
    /\ SelectIdle

NextZero ==
    \/ SelectZeroer
    \/ CallZeroer

SpecZero == InitZero /\ [][NextZero]_vars

\* The number of values one sequence of draws is followed for.
MaxDrawn == 8

\* PaUtil_Generate16BitTriangularDither( &dither )
Draw16Bit ==
    /\ cpc = "draw"
    /\ Len(draws) + 1 <= MaxDrawn
    /\ \E r \in { PaUtil_Generate16BitTriangularDither(ditherGenerator) } :
         /\ ditherGenerator' = r.state
         /\ draws' = Append(draws, [ entry |-> "Generate16Bit", value |-> r.value ])
    /\ UNCHANGED << cpc, littleEndian, sourceFormat, destinationFormat, flags,
                    converter, sourceBuffer, destinationBuffer, sourceStride,
                    destinationStride, count, stored, dithers, zeroer, ditherStart >>
    /\ UNCHANGED selectVars
    /\ UNCHANGED floatVars

\* dithersOrig[iDither] = PaUtil_GenerateFloatTriangularDither( &dither )
DrawFloat ==
    /\ cpc = "draw"
    /\ Len(draws) + 1 <= MaxDrawn
    /\ \E r \in { PaUtil_GenerateFloatTriangularDither(ditherGenerator) } :
         /\ ditherGenerator' = r.state
         /\ draws' = Append(draws, [ entry |-> "GenerateFloat", value |-> r.value ])
    /\ UNCHANGED << cpc, littleEndian, sourceFormat, destinationFormat, flags,
                    converter, sourceBuffer, destinationBuffer, sourceStride,
                    destinationStride, count, stored, dithers, zeroer, ditherStart >>
    /\ UNCHANGED selectVars
    /\ UNCHANGED floatVars

\* neonDither = PaUtil_GenerateFloatTriangularDitherVector( &dither ), the
\* lanes stored in order.
DrawFloatVector ==
    /\ cpc = "draw"
    /\ Len(draws) + ARM_NEON_BEST_VECTOR_SIZE <= MaxDrawn
    /\ \E r \in { PaUtil_GenerateFloatTriangularDitherVector(ditherGenerator) } :
         /\ ditherGenerator' = r.state
         /\ draws' = draws \o [ i \in Lanes |->
                                   [ entry |-> "GenerateFloatVector", value |-> r.value[i] ] ]
    /\ UNCHANGED << cpc, littleEndian, sourceFormat, destinationFormat, flags,
                    converter, sourceBuffer, destinationBuffer, sourceStride,
                    destinationStride, count, stored, dithers, zeroer, ditherStart >>
    /\ UNCHANGED selectVars
    /\ UNCHANGED floatVars

\* The states a sequence of draws begins with: the initialised state, and
\* two states whose seeds give the lowest sum and then the highest one, and
\* the highest sum and then the lowest one.
GeneratorStarts ==
    { PaUtil_InitializeTriangularDitherState,
      DitherStateOf(0 - 16384, 0 - 2147471926, 0 - 2147471029),
      DitherStateOf(16382, 2147233665, 2147234562) }

\* A generator drawn from through any of its entry points.
InitDither ==
    /\ ditherStart \in GeneratorStarts
    /\ FloatIdle
    /\ ditherGenerator = ditherStart
    /\ draws = << >>
    /\ cpc = "draw"
    /\ littleEndian = TRUE
    /\ sourceFormat = {}
    /\ destinationFormat = {}
    /\ flags = {}
    /\ converter = NULL
    /\ sourceBuffer = << >>
    /\ destinationBuffer = << >>
    /\ sourceStride = 0
    /\ destinationStride = 0
    /\ count = 0
    /\ stored = {}
    /\ dithers = << >>
    /\ zeroer = NULL
    /\ SelectIdle

NextDither ==
    \/ Draw16Bit
    \/ DrawFloat
    \/ DrawFloatVector

SpecDither == InitDither /\ [][NextDither]_vars

(***************************************************************************)
(* Properties of PaUtil_SelectClosestAvailableFormat                       *)
(***************************************************************************)

\* The call has reached `return result;`.
Returned == fpc = "return"

\* The arguments without the non-interleaved bit.
Requested == BitAndNot(argFormat, paNonInterleaved)
Available == BitAndNot(argAvailable, paNonInterleaved)

RequestedIsAFormat == Requested \in FormatSet

RequestedIsAvailable == BitAnd(Requested, Available) # {}

\* The positions in the quality order of the available formats that are
\* better, respectively worse, than the requested one.
BetterAvailable ==
    { i \in 1 .. Len(Formats) : i < Quality(Requested) /\ Formats[i] \subseteq Available }
WorseAvailable ==
    { i \in 1 .. Len(Formats) : i > Quality(Requested) /\ Formats[i] \subseteq Available }

Maximum(S) == CHOOSE x \in S : \A y \in S : y <= x
Minimum(S) == CHOOSE x \in S : \A y \in S : x <= y

\* C5: if the requested format, the non-interleaved bit cleared in both
\* arguments, is in the available mask, the call returns the requested
\* format without the non-interleaved bit, whatever else is available.
C5_AvailableFormatReturned ==
    (Returned /\ RequestedIsAvailable) => result = Requested

\* C5 witness: a request carrying the non-interleaved bit, available next to
\* other formats, has returned.
C5_Witness ==
    /\ Returned
    /\ argFormat = paInt16 \cup paNonInterleaved
    /\ argAvailable = paFloat32 \cup paInt16 \cup paUInt8 \cup paNonInterleaved
    /\ result = paInt16

\* C6: the requested format (one of the six) is unavailable and a better
\* format is available: the call returns the available better format nearest
\* in quality, even when a worse format is available too.
C6_NearestBetterReturned ==
    (Returned /\ RequestedIsAFormat /\ ~RequestedIsAvailable /\ BetterAvailable # {})
        => result = Formats[Maximum(BetterAvailable)]

\* C6 witness: UInt8 requested with only Int8 available returns Int8.
C6_Witness ==
    /\ Returned
    /\ argFormat = paUInt8
    /\ argAvailable = paInt8
    /\ result = paInt8
    /\ betterShifts = 1

\* C7: the requested format (one of the six) is unavailable, no better
\* format is available and a worse format is: the call returns the available
\* worse format nearest in quality.
C7_NearestWorseReturned ==
    (Returned /\ RequestedIsAFormat /\ ~RequestedIsAvailable
        /\ BetterAvailable = {} /\ WorseAvailable # {})
        => result = Formats[Minimum(WorseAvailable)]

\* C7 witness: Int24 requested with Int8 and UInt8 available returns Int8
\* after both scans.
C7_Witness ==
    /\ Returned
    /\ argFormat = paInt24
    /\ argAvailable = paInt8 \cup paUInt8
    /\ result = paInt8
    /\ betterShifts = 3
    /\ worseShifts = 2

\* The call of C8: Int8 requested, exactly Float32 and Int16 available.
C8_Call == argFormat = paInt8 /\ argAvailable = paFloat32 \cup paInt16

\* C8 as stated: that call returns Float32.
C8_Original_ReturnsFloat32 == (Returned /\ C8_Call) => result = paFloat32

\* C8 as amended: Int8 requested with exactly Float32 and Int16 available
\* returns Int16, the nearest better format.
C8_ReturnsInt16 == (Returned /\ C8_Call) => result = paInt16

\* C8 witness: that call has returned, after one shift right.
C8_Witness == Returned /\ C8_Call /\ betterShifts = 1 /\ worseShifts = 0

\* C9: one of the six formats requested, with or without the non-interleaved
\* bit, and no format bit in the available mask: the call returns
\* paSampleFormatNotSupported.
C9_NothingAvailableNotSupported ==
    (Returned /\ RequestedIsAFormat /\ Available = {})
        => result = paSampleFormatNotSupported

\* C9 witness: a request with the non-interleaved bit against a mask holding
\* only that bit has returned, the scan for worse formats having run to
\* paCustomFormat.
C9_Witness ==
    /\ Returned
    /\ argFormat = paInt32 \cup paNonInterleaved
    /\ argAvailable = paNonInterleaved
    /\ result = paSampleFormatNotSupported
    /\ worseShifts = 15

\* The better formats, as masks.
BetterThan(f) == { Formats[i] : i \in 1 .. (Quality(f) - 1) }

\* C10 as stated: UInt8 requested and unavailable: no shift towards better
\* formats is made and the result is no format better than UInt8.
C10_Original_WorstSkipsBetterScan ==
    (Requested = paUInt8 /\ ~RequestedIsAvailable)
        => (betterShifts = 0 /\ (Returned => result \notin BetterThan(paUInt8)))

\* C10 as amended: Float32, the best format, requested and unavailable: no
\* shift towards better formats is made, and the result is the nearest worse
\* available format, or paSampleFormatNotSupported (or paCustomFormat) when
\* none of the six is available.
C10_BestSkipsBetterScan ==
    (Requested = paFloat32 /\ ~RequestedIsAvailable)
        => /\ betterShifts = 0
           /\ Returned => /\ worseShifts >= 1
                          /\ result = IF WorseAvailable # {}
                                      THEN Formats[Minimum(WorseAvailable)]
                                      ELSE IF paCustomFormat \subseteq Available
                                           THEN paCustomFormat
                                           ELSE paSampleFormatNotSupported

\* C10 witness: Float32 requested with only Int24 available has returned
\* Int24 from the scan for worse formats.
C10_Witness ==
    /\ Returned
    /\ argFormat = paFloat32
    /\ argAvailable = paInt24
    /\ result = paInt24
    /\ betterShifts = 0
    /\ worseShifts = 2

(***************************************************************************)
(* Properties of PaUtil_SelectConverter and of the converter call           *)
(***************************************************************************)

ConverterSelected == cpc \in { "selected", "called" }
ConverterCalled == cpc = "called"

\* The names and widths of the six formats as the specification lists them.
NameOfFormat(f) ==
    CASE f = paFloat32 -> "Float32"
      [] f = paInt32 -> "Int32"
      [] f = paInt24 -> "Int24"
      [] f = paInt16 -> "Int16"
      [] f = paInt8 -> "Int8"
      [] f = paUInt8 -> "UInt8"

BitsOfFormat(f) ==
    CASE f \in { paFloat32, paInt32 } -> 32
      [] f = paInt24 -> 24
      [] f = paInt16 -> 16
      [] f \in { paInt8, paUInt8 } -> 8

\* The formats of the call with the non-interleaved bit ignored.
PlainSource == sourceFormat \ paNonInterleaved
PlainDestination == destinationFormat \ paNonInterleaved
PairOfFormats == PlainSource \in FormatSet /\ PlainDestination \in FormatSet
IntegerFormat(f) == f \in FormatSet \ { paFloat32 }

ClipOff == flags \cap paClipOff # {}
DitherOff == flags \cap paDitherOff # {}

\* The destination byte offsets of count samples at the destination stride.
SamplePositions ==
    LET size == BitsOfFormat(PlainDestination) \div 8
    IN  { d * destinationStride * size + b : d \in 0 .. (count - 1), b \in 0 .. (size - 1) }

\* C1 (as stated): every converter PaUtil_SelectConverter returns for a pair
\* of the six formats, called with count n, stores exactly the n destination
\* samples at positions 0, stride, ..., (n-1)*stride.
C1_WritesCountSamples ==
    (ConverterCalled /\ PairOfFormats) => stored = SamplePositions

\* C2 (as stated): a converter selected with paDitherOff not set for an
\* integer source and a narrower integer destination is never a callable
\* converter that leaves the destination buffer unmodified.
C2_NoSilentUnimplementedConverter ==
    ~ ( /\ ConverterCalled
        /\ converter # NULL
        /\ PairOfFormats
        /\ IntegerFormat(PlainSource) /\ IntegerFormat(PlainDestination)
        /\ BitsOfFormat(PlainDestination) < BitsOfFormat(PlainSource)
        /\ ~ DitherOff
        /\ count > 0
        /\ \A j \in 1 .. Len(destinationBuffer) : destinationBuffer[j] = DestinationFill )

\* The copy kernel of a format's width.
CopyKernel(f) ==
    CASE f \in { paFloat32, paInt32 } -> "Copy_32_To_32"
      [] f = paInt24 -> "Copy_24_To_24"
      [] f = paInt16 -> "Copy_16_To_16"
      [] f \in { paInt8, paUInt8 } -> "Copy_8_To_8"

\* The bytes of sample d of a buffer of samples of size bytes at a stride.
SampleAt(buf, d, stride, size) == SubSeq(buf, d * stride * size + 1, d * stride * size + size)

\* C3: for equal source and destination formats and any flags the selected
\* converter is the copy kernel of the format's width, and its call leaves
\* every destination sample equal, byte for byte, to the source sample and
\* leaves the dither state as it was.
C3_UnityConversionCopies ==
    [][ ( /\ cpc = "selected"
          /\ cpc' = "called"
          /\ PairOfFormats
          /\ PlainSource = PlainDestination )
        => ( /\ converter = CopyKernel(PlainSource)
             /\ \A d \in 0 .. (count' - 1) :
                  SampleAt(destinationBuffer', d, destinationStride',
                           BitsOfFormat(PlainSource) \div 8)
                    = SampleAt(sourceBuffer', d, sourceStride',
                               BitsOfFormat(PlainSource) \div 8)
             /\ ditherGenerator' = ditherGenerator ) ]_vars

\* A copy selected with dither and clip both enabled has copied samples at
\* a destination stride of two.
C3_Witness ==
    /\ ConverterCalled
    /\ PlainSource = PlainDestination
    /\ PlainSource = paInt24
    /\ flags = {}
    /\ count >= 2
    /\ destinationStride = 2
    /\ sourceStride = 1
    /\ SampleAt(destinationBuffer, 1, 2, 3) = SampleAt(sourceBuffer, 1, 1, 3)
    /\ SampleAt(destinationBuffer, 1, 2, 3) # << DestinationFill, DestinationFill, DestinationFill >>

\* The variant of the Float32 source converters for the flags.
VariantOfFlags ==
    IF ClipOff
    THEN IF DitherOff THEN "" ELSE "_Dither"
    ELSE IF DitherOff THEN "_Clip" ELSE "_DitherClip"

\* C4: with the non-interleaved bits ignored, selection returns for a
\* Float32 source and an integer destination the variant the two flags name;
\* for an integer source and a narrower integer destination the plain
\* converter when paDitherOff is set and the _Dither converter otherwise;
\* for an integer source and a destination that is wider or Float32 the
\* plain converter.
C4_SelectionByFlags ==
    (ConverterSelected /\ PairOfFormats) =>
        LET s == NameOfFormat(PlainSource)
            d == NameOfFormat(PlainDestination)
        IN  /\ (PlainSource = paFloat32 /\ IntegerFormat(PlainDestination))
                 => converter = s \o "_To_" \o d \o VariantOfFlags
            /\ ( /\ IntegerFormat(PlainSource)
                 /\ IntegerFormat(PlainDestination)
                 /\ BitsOfFormat(PlainDestination) < BitsOfFormat(PlainSource) )
                 => converter = s \o "_To_" \o d \o (IF DitherOff THEN "" ELSE "_Dither")
            /\ ( /\ IntegerFormat(PlainSource)
                 /\ \/ PlainDestination = paFloat32
                    \/ BitsOfFormat(PlainDestination) > BitsOfFormat(PlainSource) )
                 => converter = s \o "_To_" \o d

\* Selection for a non-interleaved Float32 source and an Int16 destination
\* with only paClipOff set has returned the _Dither converter.
C4_Witness ==
    /\ ConverterSelected
    /\ sourceFormat = paFloat32 \cup paNonInterleaved
    /\ destinationFormat = paInt16
    /\ flags = paClipOff
    /\ converter = "Float32_To_Int16_Dither"

\* The four copy kernels.
CopyKernels == { "Copy_8_To_8", "Copy_16_To_16", "Copy_24_To_24", "Copy_32_To_32" }

\* C11 (as stated): for every pair of formats that are the same format or
\* have the same sample width (so also Float32/Int32 and Int8/UInt8 in
\* either direction) selection returns a copy kernel whatever the flags.
C11_Original_SameWidthCopies ==
    ( /\ ConverterSelected
      /\ PairOfFormats
      /\ BitsOfFormat(PlainSource) = BitsOfFormat(PlainDestination) )
    => converter \in CopyKernels

\* C11 (amended): selection returns a copy kernel exactly when source and
\* destination are the same format, whatever the flags; two different
\* formats of the same width (Float32/Int32, Int8/UInt8) get the converter
\* between them.
C11_SameFormatCopies ==
    (ConverterSelected /\ PairOfFormats) =>
        /\ (converter \in CopyKernels) <=> (PlainSource = PlainDestination)
        /\ ( /\ PlainSource # PlainDestination
             /\ BitsOfFormat(PlainSource) = BitsOfFormat(PlainDestination)
             /\ IntegerFormat(PlainSource) )
             => converter = NameOfFormat(PlainSource) \o "_To_"
                              \o NameOfFormat(PlainDestination)

\* Selection for UInt8 to Int8 with dither and clip enabled has returned the
\* converter UInt8_To_Int8, not a copy.
C11_Witness ==
    /\ ConverterSelected
    /\ sourceFormat = paUInt8
    /\ destinationFormat = paInt8 \cup paNonInterleaved
    /\ flags = {}
    /\ converter = "UInt8_To_Int8"

(***************************************************************************)
(* Properties of the conversion of one sample                              *)
(***************************************************************************)

\* The source sample and the destination sample of a call on one sample.
SourceSample == SubSeq(sourceBuffer, 1, SampleSize(FormatNameOf(sourceFormat)))
DestinationSample ==
    SubSeq(destinationBuffer, 1, SampleSize(FormatNameOf(destinationFormat)))

\* The integer narrowing converters to Int16 and Int8.
PlainNarrowing ==
    { "Int32_To_Int16", "Int32_To_Int8", "Int24_To_Int16", "Int24_To_Int8" }
DitheredNarrowing ==
    { "Int32_To_Int16_Dither", "Int32_To_Int8_Dither",
      "Int24_To_Int16_Dither", "Int24_To_Int8_Dither" }

\* The wide value of the source sample: a 24 bit sample is widened to the
\* top of 32 bits.
WideValue ==
    IF sourceFormat = paInt32
    THEN LoadInt32(SourceSample, littleEndian)
    ELSE LoadInt24AsInt32(SourceSample, littleEndian)

NarrowBits == IF destinationFormat = paInt16 THEN 16 ELSE 8

\* The value before the final cast: wide >> 16 or >> 24, and with dither
\* ((wide >> 1) + dither) >> 15 or >> 23.
NarrowedBeforeCast ==
    IF converter \in DitheredNarrowing
    THEN ShiftRightArith(ShiftRightArith(WideValue, 1) + dithers[1], 31 - NarrowBits)
    ELSE ShiftRightArith(WideValue, 32 - NarrowBits)

NarrowedStored ==
    IF destinationFormat = paInt16
    THEN LoadInt16(DestinationSample, littleEndian)
    ELSE LoadInt8(DestinationSample)

\* C12: after a plain or dithered narrowing converter has converted a
\* sample, the value before the final cast lies in the destination range
\* and is the sample stored (nothing wrapped around).
C12_NarrowingNeverWraps ==
    (ConverterCalled /\ converter \in PlainNarrowing \cup DitheredNarrowing) =>
        /\ NarrowedBeforeCast >= 0 - 2 ^ (NarrowBits - 1)
        /\ NarrowedBeforeCast <= 2 ^ (NarrowBits - 1) - 1
        /\ NarrowedStored = NarrowedBeforeCast

\* Byte k (0 the least significant) of the 32 bit word v.
ByteOfWord(v, k) == (v \div (2 ^ (8 * k))) % 256

\* C15: after a call of Int32_To_Int24, destination sample i (3 bytes at
\* offset 3 * stride * i) holds bytes 1, 2, 3 of source sample i, the least
\* significant first on a little-endian target and the most significant
\* first on a big-endian one, and Int24_To_Int32 of these bytes is the
\* source sample with its low 8 bits cleared.
C15_Int24HoldsHighBytes ==
    (ConverterCalled /\ converter = "Int32_To_Int24") =>
        \A i \in 0 .. count - 1 :
            LET v == LoadInt32(SampleAt(sourceBuffer, i, sourceStride, 4), littleEndian)
                d == SampleAt(destinationBuffer, i, destinationStride, 3)
            IN  /\ d = IF littleEndian
                       THEN << ByteOfWord(v, 1), ByteOfWord(v, 2), ByteOfWord(v, 3) >>
                       ELSE << ByteOfWord(v, 3), ByteOfWord(v, 2), ByteOfWord(v, 1) >>
                /\ Int24_To_Int32(d, littleEndian) = StoreInt32(v - (v % 256), littleEndian)

\* Int32_To_Int24 has converted 0x7FFFFFFF and 0x80000000 at destination
\* stride 2 on a little-endian target: the first triplet is FF FF 7F, the
\* second one lies 6 bytes on.
C15_Witness ==
    /\ ConverterCalled
    /\ converter = "Int32_To_Int24"
    /\ littleEndian
    /\ count >= 2
    /\ sourceStride = 2
    /\ destinationStride = 2
    /\ SubSeq(sourceBuffer, 1, 4) = << 255, 255, 255, 127 >>
    /\ SubSeq(destinationBuffer, 1, 3) = << 255, 255, 127 >>
    /\ SubSeq(destinationBuffer, 7, 9) = << 0, 0, 128 >>

\* The converters from a wider integer format into UInt8 without dither.
WiderToUInt8 == { "Int32_To_UInt8", "Int24_To_UInt8", "Int16_To_UInt8" }

\* C16: Int8_To_UInt8 stores v + 128 and UInt8_To_Int8 stores u - 128, each
\* undoes the other, 0 becomes 128, and a converter from a wider integer
\* format into UInt8 stores what the converter from the same format into
\* Int8 stores, plus 128 modulo 256.
C16_UnsignedIsSignedPlus128 ==
    ConverterCalled =>
        /\ converter = "Int8_To_UInt8" =>
              /\ LoadUInt8(DestinationSample) = LoadInt8(SourceSample) + 128
              /\ UInt8_To_Int8(DestinationSample, littleEndian) = SourceSample
              /\ (LoadInt8(SourceSample) = 0) => (DestinationSample = << 128 >>)
        /\ converter = "UInt8_To_Int8" =>
              /\ LoadInt8(DestinationSample) = LoadUInt8(SourceSample) - 128
              /\ Int8_To_UInt8(DestinationSample, littleEndian) = SourceSample
        /\ converter \in WiderToUInt8 =>
              LoadUInt8(DestinationSample)
                = (LoadInt8(ConvertSample(NameOfFormat(PlainSource) \o "_To_Int8",
                                          SourceSample, 0, littleEndian)) + 128) % 256

\* Int8_To_UInt8 has converted the sample -128 to 0.
C16_Witness ==
    /\ ConverterCalled
    /\ converter = "Int8_To_UInt8"
    /\ LoadInt8(SourceSample) = 0 - 128
    /\ DestinationSample = << 0 >>

(***************************************************************************)
(* Properties of the zeroers                                               *)
(***************************************************************************)

ZeroerSelected == cpc \in { "selected", "called" }
ZeroerCalled == cpc = "called"

\* The silence code of a format, byte for byte.
SilenceByte(f) == IF f = paUInt8 THEN 128 ELSE 0

\* C17: PaUtil_SelectZeroer returns a zeroer for each of the six formats and
\* 0 for any other format; the call of the zeroer leaves the silence code
\* of the format in every byte of the count strided samples and every
\* other byte of the destination as it was.
C17_ZeroersStoreSilence ==
    /\ ZeroerSelected => ((zeroer # NULL) <=> (PlainDestination \in FormatSet))
    /\ ZeroerCalled =>
          \E before \in DestinationContents :
              \A j \in 1 .. Len(destinationBuffer) :
                  LET size == BitsOfFormat(PlainDestination) \div 8
                      pos == (j - 1) \div size
                  IN  destinationBuffer[j] =
                          IF pos % destinationStride = 0 /\ pos \div destinationStride < count
                          THEN SilenceByte(PlainDestination)
                          ELSE before[j]

\* The zeroer of paUInt8 has been called with count 2 at stride 2 on a
\* buffer of fill bytes: bytes 0 and 2 hold 128, byte 1 and byte 3 the fill.
C17_Witness ==
    /\ ZeroerCalled
    /\ PlainDestination = paUInt8
    /\ count = 2
    /\ destinationStride = 2
    /\ SubSeq(destinationBuffer, 1, 4) = << 128, DestinationFill, 128, DestinationFill >>

(***************************************************************************)
(* Properties of the dither generator                                      *)
(***************************************************************************)

\* The values the integer entry point has returned.
Drawn16Bit == { draws[i].value : i \in { j \in 1 .. Len(draws) : draws[j].entry = "Generate16Bit" } }

\* C18: every value the integer entry point returns, in any state reached
\* by any calls of the generator, lies in [-32768, 32767].
C18_IntegerDitherInRange ==
    \A v \in Drawn16Bit : v >= 0 - 32768 /\ v <= 32767

\* The integer entry point has returned 32766, the highest sum after the
\* lowest one, as the first value of a sequence of draws.
C18_Witness ==
    /\ Len(draws) >= 2
    /\ draws[1].entry = "Generate16Bit"
    /\ draws[1].value = 32766
    /\ draws[2].entry = "Generate16Bit"

\* The sum of the two seeds of lane i, each shifted right by DITHER_SHIFT_.
ShiftedSum(state, i) ==
    ShiftRightArith(state.randSeed1[i], DITHER_SHIFT_)
      + ShiftRightArith(state.randSeed2[i], DITHER_SHIFT_)

\* The number of values the step draws through a scalar entry point.
ScalarDrawsOfStep ==
    IF Len(draws') = Len(draws) + 1 THEN 1
    ELSE IF cpc = "selected" /\ cpc' = "called" /\ converter # NULL THEN Len(dithers')
    ELSE 0

VectorDrawStep == Len(draws') = Len(draws) + ARM_NEON_BEST_VECTOR_SIZE

\* C19: a step that draws n values through a scalar entry point advances
\* the two seeds by n steps of seed * 196314165 + 907633515 (mod 2^32) and,
\* for n > 0, leaves in previous the sum of the shifted new seeds; a vector
\* draw advances the seeds of each lane by four steps and leaves in previous
\* the sum of lane 3; no step puts the state back to the initialised one or
\* to the one the sequence began with.
C19_StateFollowsRecurrence ==
    [][ /\ VectorDrawStep =>
              /\ \A i \in Lanes :
                    /\ ditherGenerator'.randSeed1[i] = LcgIterate(ditherGenerator.randSeed1[i], 4)
                    /\ ditherGenerator'.randSeed2[i] = LcgIterate(ditherGenerator.randSeed2[i], 4)
              /\ ditherGenerator'.previous
                    = ShiftRightArith(LcgStep(ditherGenerator.randSeed1[ARM_NEON_BEST_VECTOR_SIZE]),
                                      DITHER_SHIFT_)
                      + ShiftRightArith(LcgStep(ditherGenerator.randSeed2[ARM_NEON_BEST_VECTOR_SIZE]),
                                        DITHER_SHIFT_)
        /\ ~VectorDrawStep =>
              /\ ditherGenerator'.randSeed1[1]
                    = LcgIterate(ditherGenerator.randSeed1[1], ScalarDrawsOfStep)
              /\ ditherGenerator'.randSeed2[1]
                    = LcgIterate(ditherGenerator.randSeed2[1], ScalarDrawsOfStep)
              /\ ditherGenerator'.previous =
                    IF ScalarDrawsOfStep > 0
                    THEN ShiftedSum(ditherGenerator', 1)
                    ELSE ditherGenerator.previous
        /\ (ditherGenerator' # ditherGenerator) =>
              ditherGenerator' \notin { ditherStart, PaUtil_InitializeTriangularDitherState }
      ]_vars

\* Two values have been drawn from the initialised state through the two
\* scalar entry points: the seeds are two steps on and previous is the
\* second sum, -13160.
C19_Witness ==
    /\ ditherStart = PaUtil_InitializeTriangularDitherState
    /\ Len(draws) = 2
    /\ draws[1].entry = "GenerateFloat"
    /\ draws[2].entry = "Generate16Bit"
    /\ ditherGenerator.randSeed1[1] = LcgStep(LcgStep(22222))
    /\ ditherGenerator.previous = 0 - 13160

\* The first n values PaUtil_GenerateFloatTriangularDither returns from
\* state, in order.
RECURSIVE ScalarFloatSequence(_, _)
ScalarFloatSequence(state, n) ==
    IF n = 0 THEN << >>
    ELSE LET r == PaUtil_GenerateFloatTriangularDither(state)
         IN  << r.value >> \o ScalarFloatSequence(r.state, n - 1)

OnlyVectorDraws == \A i \in 1 .. Len(draws) : draws[i].entry = "GenerateFloatVector"

\* C20: after k calls of PaUtil_GenerateFloatTriangularDitherVector and no
\* other draw, the lanes read in order are, bit for bit, the first 4k values
\* PaUtil_GenerateFloatTriangularDither returns from the state the sequence
\* began with; each lane's seeds are 4k steps on, and previous is the sum
\* the last lane used, which is the one the scalar generator leaves.
C20_VectorLanesAreScalarSequence ==
    OnlyVectorDraws =>
        /\ [ i \in 1 .. Len(draws) |-> draws[i].value ]
              = ScalarFloatSequence(ditherStart, Len(draws))
        /\ \A i \in Lanes :
              /\ ditherGenerator.randSeed1[i] = LcgIterate(ditherStart.randSeed1[i], Len(draws))
              /\ ditherGenerator.randSeed2[i] = LcgIterate(ditherStart.randSeed2[i], Len(draws))
        /\ ditherGenerator.previous = AfterDraws(ditherStart, Len(draws)).previous

\* Two vector calls from the initialised state: eight lanes read.
C20_Witness ==
    /\ ditherStart = PaUtil_InitializeTriangularDitherState
    /\ OnlyVectorDraws
    /\ Len(draws) = 2 * ARM_NEON_BEST_VECTOR_SIZE
    /\ draws[1].value = FloatDither(3174)
    /\ draws[6].value = FloatDither(0 - 5854)

(***************************************************************************)
(* Streams of float samples: a converter from Float32 selected and called  *)
(* once, on a build with or without __ARM_NEON__.                          *)
(***************************************************************************)

\* Float samples of the float domain [-1.0, +1.0): -1, the largest float
\* below 1, 1/2, -1/2, 0, 2^-10, the float next to -1, -0.7 and 1/128.
InRangeFloats ==
    << Float32OfScaled(0 - 1, 0), Float32OfScaled(16777215, 24),
       Float32OfScaled(1, 1), Float32OfScaled(0 - 1, 1), Float32OfScaled(0, 0),
       Float32OfScaled(1, 10), Float32OfScaled(0 - 16777215, 24),
       Float32OfScaled(0 - 11744051, 24), Float32OfScaled(1, 7) >>

\* Float samples outside the float domain: 1, the floats next to 1 and -1,
\* -1.5, 2, +-65538 (whose product with 32767 is 2^31 and more), +-2^27
\* (whose product with 127 is) and +-2^34.
OutOfRangeFloats ==
    << Float32OfScaled(1, 0), Float32OfScaled(0 - 8388609, 23),
       Float32OfScaled(65538, 0), Float32OfScaled(0 - 3, 1),
       Float32OfScaled(1, 0 - 34), Float32OfScaled(0 - 1, 0 - 34),
       Float32OfScaled(8388609, 23), Float32OfScaled(0 - 65538, 0),
       Float32OfScaled(2, 0), Float32OfScaled(1, 0 - 27), Float32OfScaled(0 - 1, 0 - 27) >>

\* #define MAX_STRIDE 4 and int strides[] = {1, 2, MAX_STRIDE} of the
\* performance example.
MAX_STRIDE == 4
strides == << 1, 2, MAX_STRIDE >>

\* float sourceBuffer[MAX_BUFFLEN * MAX_STRIDE], in samples, for the
\* largest count tried.
FloatSamples == MaxCount * MAX_STRIDE

\* Floats of magnitude at most 0.99: the floats next to 0.99 and -0.99,
\* one near 1/3, and floats below 2^-8, whose product with 2^31 has a
\* fraction (.75, .5, .47) that the conversion to an integer drops.
RoundTripFloats ==
    << Float32OfScaled(16777215, 33), Float32OfScaled(0 - 16777215, 33),
       Float32OfScaled(1, 32), Float32OfScaled(0 - 3, 33),
       Float32OfScaled(16609443, 24), Float32OfScaled(0 - 16609443, 24),
       Float32OfScaled(8388609, 32), Float32OfScaled(11184811, 25),
       Float32OfScaled(0 - 12345679, 36) >>

\* A source buffer whose samples hold the floats of list in turn, from
\* entry start on.
FloatBuffer(list, start, le) ==
    [ j \in 1 .. FloatSamples * 4 |->
        StoreFloat32(list[((start + (j - 1) \div 4) % Len(list)) + 1], le)[((j - 1) % 4) + 1] ]

\* The source buffer the performance example fills for a stride:
\* pBuff[iEntry*iStride] = ((float)((iEntry % 256) - 128)) / 128.0, here
\* from entry start of the ramp on.
FloatRamp(start, n, srcStride, le) ==
    [ j \in 1 .. FloatSamples * 4 |->
        LET pos == (j - 1) \div 4
            k == ((j - 1) % 4) + 1
        IN  IF pos % srcStride = 0 /\ pos \div srcStride < n
            THEN RampSample("Float32", ((start + pos \div srcStride) % 256) - 128, le)[k]
            ELSE SourceFill ]

\* The pairs of a source and a destination stride: as the performance
\* example calls, one of its strides on the source or on the destination
\* and 1 on the other, and both 2.
StridePairs ==
    { << strides[i], 1 >> : i \in 1 .. Len(strides) }
      \cup { << 1, strides[i] >> : i \in 1 .. Len(strides) }
      \cup { << 2, 2 >> }

\* A count for which the vector loop runs twice and the scalar loop once.
TwoVectorsAndOne == 2 * ARM_NEON_BEST_VECTOR_SIZE + 1

\* The calls: the ramp from its first entry with every count and every
\* pair of strides, and with a count of two vectors and one sample for the
\* strides 1 and 2; the ramp where it passes 0 and where it starts again,
\* the two lists, from their first entry on and from a later one, with the
\* largest count and both strides 1, and the floats of the round trip.
FloatCalls(le) ==
    { [ count |-> n, sourceStride |-> p[1], destinationStride |-> p[2],
        sourceBuffer |-> FloatRamp(0, n, p[1], le) ] :
          n \in 0 .. MaxCount, p \in StridePairs }
      \cup
    { [ count |-> TwoVectorsAndOne, sourceStride |-> p[1], destinationStride |-> p[2],
        sourceBuffer |-> FloatRamp(0, TwoVectorsAndOne, p[1], le) ] :
          p \in { q \in StridePairs : q[1] <= 2 /\ q[2] <= 2 } }
      \cup
    { [ count |-> MaxCount, sourceStride |-> 1, destinationStride |-> 1,
        sourceBuffer |-> b ] :
          b \in { FloatRamp(126, MaxCount, 1, le), FloatRamp(253, MaxCount, 1, le),
                  FloatBuffer(InRangeFloats, 0, le), FloatBuffer(InRangeFloats, 1, le),
                  FloatBuffer(OutOfRangeFloats, 0, le),
                  FloatBuffer(OutOfRangeFloats, 4, le) } }
      \cup
    { [ count |-> TwoVectorsAndOne, sourceStride |-> 1, destinationStride |-> 1,
        sourceBuffer |-> FloatBuffer(RoundTripFloats, 0, le) ] }

\* The call of the selected converter, which reads floats, on the buffer,
\* with the count and the strides, the caller has set up.
ConvertFloatBuffer ==
    /\ cpc = "selected"
    /\ converter # NULL
    /\ ConverterType(converter).source = "Float32"
    /\ \E r \in { Float32ConverterCall(converter,
                                       [ j \in 1 .. FloatSamples
                                             * SampleSize(ConverterType(converter).destination)
                                           |-> DestinationFill ],
                                       destinationStride, sourceBuffer, sourceStride,
                                       count, ditherGenerator, littleEndian,
                                       armNeon, withAcceleration, floatToInt,
                                       dither24Scale) } :
         /\ destinationBuffer' = r.destinationBuffer
         /\ ditherGenerator' = r.ditherGenerator
         /\ stored' = r.stored
         /\ dithers' = r.dithers
         /\ converted' = r.converted
    /\ cpc' = "called"
    /\ UNCHANGED << littleEndian, sourceFormat, destinationFormat, flags, converter,
                    sourceBuffer, sourceStride, destinationStride, count, zeroer >>
    /\ UNCHANGED << armNeon, withAcceleration, floatToInt, dither24Scale >>
    /\ UNCHANGED selectVars
    /\ UNCHANGED drawVars

\* The builds and the settings of withAcceleration.  Without __ARM_NEON__
\* the flag is not read.  An out of range conversion to an integer gives the
\* nearer end of the range on an ARM target and either that or the integer
\* indefinite value elsewhere.  PaUtil_GenerateFloatTriangularDither24 is
\* called with no declaration in scope and the vector generator with a scale
\* of const_float_dither_scale_ * 256.0 its declaration has no parameter
\* for: the 24 bit dither has the scale of the float dither or 256 times it.
Builds ==
    { b \in [ neon : BOOLEAN, acceleration : { 0, 1 },
              cast : { "indefinite", "saturate" }, scale24 : { 1, 256 } ] :
        /\ b.neon => b.cast = "saturate"
        /\ ~b.neon => b.acceleration = 1 }

\* A stream from Float32 to one of the integer formats.
InitFloat ==
    /\ littleEndian \in BOOLEAN
    /\ sourceFormat = paFloat32
    /\ destinationFormat \in FormatSet \ { paFloat32 }
    /\ flags \in SUBSET (paClipOff \cup paDitherOff)
    /\ \E b \in Builds :
         /\ b.scale24 = 256 => destinationFormat = paInt24 /\ flags \cap paDitherOff = {}
         /\ armNeon = b.neon
         /\ withAcceleration = b.acceleration
         /\ floatToInt = b.cast
         /\ dither24Scale = b.scale24
    /\ ditherGenerator \in IF flags \cap paDitherOff = {} THEN GeneratorStarts
                            ELSE { PaUtil_InitializeTriangularDitherState }
    /\ cpc = "select"
    /\ converter = NULL
    /\ \E c \in FloatCalls(littleEndian) :
         /\ count = c.count
         /\ sourceStride = c.sourceStride
         /\ destinationStride = c.destinationStride
         /\ sourceBuffer = c.sourceBuffer
    /\ destinationBuffer = << >>
    /\ stored = {}
    /\ dithers = << >>
    /\ converted = << >>
    /\ zeroer = NULL
    /\ DitherHandedIn
    /\ SelectIdle

NextFloat ==
    \/ SelectConverter
    \/ ConvertFloatBuffer

SpecFloat == InitFloat /\ [][NextFloat]_vars

(***************************************************************************)
(* Clipping converters from Float32                                        *)
(***************************************************************************)

ClippingConverters ==
    { t.name : t \in { u \in ConverterTypes :
                         /\ u.source = "Float32"
                         /\ \E k \in { "Int32", "Int24", "Int16", "Int8", "UInt8" } :
                              u.name \in { "Float32_To_" \o k \o "_Clip",
                                           "Float32_To_" \o k \o "_DitherClip" } } }

\* The range the scaled value is clamped to for a destination, with the
\* integers stored for its two ends: 32 bit for Int32 and Int24 (an Int24
\* sample is the upper three bytes), 16 bit for Int16, and -128 .. 127 for
\* Int8 and for UInt8, which is stored with an offset of 128.
ClipRange(destination) ==
    CASE destination = "Int32" ->
           [ low |-> (0 - 2147483647) - 1, high |-> 2147483647,
             lowest |-> (0 - 2147483647) - 1, highest |-> 2147483647 ]
      [] destination = "Int24" ->
           [ low |-> (0 - 2147483647) - 1, high |-> 2147483647,
             lowest |-> 0 - 8388608, highest |-> 8388607 ]
      [] destination = "Int16" ->
           [ low |-> 0 - 32768, high |-> 32767,
             lowest |-> 0 - 32768, highest |-> 32767 ]
      [] destination = "Int8" ->
           [ low |-> 0 - 128, high |-> 127, lowest |-> 0 - 128, highest |-> 127 ]
      [] destination = "UInt8" ->
           [ low |-> 0 - 128, high |-> 127, lowest |-> 0, highest |-> 255 ]

\* C13: after a call of a clipping converter from Float32, with or without
\* acceleration and for any count, every stored sample lies in the range of
\* the destination, and is the nearer end of that range when the scaled
\* (and possibly dithered) value lies beyond it.
C13_ClipStoresNearerLimit ==
    (cpc = "called" /\ converter \in ClippingConverters) =>
        \A i \in 1 .. Len(converted) :
            LET r == ClipRange(ConverterType(converter).destination)
                c == converted[i]
            IN  /\ c.value \in r.lowest .. r.highest
                /\ RealLess(RealOfInt(r.high), c.scaled) => c.value = r.highest
                /\ RealLess(c.scaled, RealOfInt(r.low)) => c.value = r.lowest

(***************************************************************************)
(* Dithering converters from Float32 without a clip step                   *)
(***************************************************************************)

DitherNoClipConverters ==
    { "Float32_To_Int32_Dither", "Float32_To_Int24_Dither", "Float32_To_Int16_Dither",
      "Float32_To_Int8_Dither", "Float32_To_UInt8_Dither" }

\* The source samples of the call lie in [-1.0, +1.0).
SourceInFloatDomain ==
    \A i \in 0 .. count - 1 :
        LET x == LoadFloat32(SubSeq(sourceBuffer, i * sourceStride * 4 + 1,
                                    i * sourceStride * 4 + 4), littleEndian)
        IN  /\ ~RealLess(x, RealOfInt(0 - 1))
            /\ RealLess(x, RealOfInt(1))

\* The multiplier of the converter to the same destination that neither
\* dithers nor clips, in the loop (scalar or vector) that made a sample.
NonDitheredScale(destination, loop) ==
    LET plain == "Float32_To_" \o destination
        zero == RealOfInt(0)
    IN  IF loop = "vector" THEN Float32VectorLane(plain, zero, zero, littleEndian).scale
        ELSE Float32ScalarSample(plain, zero, zero, floatToInt, littleEndian).scale

\* The range of the integer type the dithered value is converted to.
CastRange(destination) ==
    CASE destination \in { "Int32", "Int24" } -> ((0 - 2147483647) - 1) .. 2147483647
      [] destination = "Int16" -> (0 - 32768) .. 32767
      [] destination \in { "Int8", "UInt8" } -> (0 - 128) .. 127

\* C14: after a call of a dithering converter from Float32 that does not
\* clip, on samples in [-1.0, +1.0) and whatever the dither drawn, every
\* sample was scaled by one less than the scale of the converter that does
\* not dither, and the scaled value plus the dither lies in the range of the
\* integer it is converted to: 32 bit for Int32 and Int24, 16 bit for Int16,
\* 8 bit for Int8 and UInt8.
C14_DitherScaleLeavesHeadroom ==
    (cpc = "called" /\ converter \in DitherNoClipConverters /\ SourceInFloatDomain) =>
        \A i \in 1 .. Len(converted) :
            LET d == ConverterType(converter).destination
                c == converted[i]
            IN  /\ MagAdd(c.scale, << 1 >>) = NonDitheredScale(d, c.loop)
                /\ FitsInt32(c.cast)
                /\ Int32Part(c.cast) \in CastRange(d)

(***************************************************************************)
(* Termination of PaUtil_SelectClosestAvailableFormat                      *)
(***************************************************************************)

\* A call that has begun keeps executing: the function is sequential code
\* and every statement of it completes.
SpecSelectLive == SpecSelect /\ WF_vars(NextSelect)

\* C28: PaUtil_SelectClosestAvailableFormat terminates for every requested
\* format and every mask of available formats, also for a request with no
\* format bit left once paNonInterleaved is cleared and for a request above
\* paCustomFormat: each call reaches its return.
C28_SelectClosestTerminates == <>(fpc = "return")

(***************************************************************************)
(* Widening and narrowing of one sample                                    *)
(***************************************************************************)

\* The converters from an integer format to a wider signed one, and from
\* UInt8 to every signed format.
WideningConverters ==
    { "Int8_To_Int16", "Int8_To_Int24", "Int8_To_Int32", "Int16_To_Int24",
      "Int16_To_Int32", "Int24_To_Int32",
      "UInt8_To_Int8", "UInt8_To_Int16", "UInt8_To_Int24", "UInt8_To_Int32" }

\* The converter back, without dither: what PaUtil_SelectConverter returns
\* for the formats exchanged when paDitherOff is set.
NarrowingBack ==
    PaUtil_SelectConverter(destinationFormat, sourceFormat, paDitherOff)

\* C30: after a widening converter has converted a sample, the plain
\* converter from the wider format back to the narrower one, applied to the
\* sample stored, gives the source sample.
C30_WidenThenNarrowIsIdentity ==
    (ConverterCalled /\ converter \in WideningConverters) =>
        /\ NarrowingBack
             = NameOfFormat(PlainDestination) \o "_To_" \o NameOfFormat(PlainSource)
        /\ ConvertSample(NarrowingBack, DestinationSample, 0, littleEndian) = SourceSample

\* UInt8_To_Int24 has converted the sample 255 on a little-endian target:
\* the bytes stored are 00 00 7F, and Int24_To_UInt8 of them is 255.
C30_Witness ==
    /\ ConverterCalled
    /\ converter = "UInt8_To_Int24"
    /\ littleEndian
    /\ SourceSample = << 255 >>
    /\ DestinationSample = << 0, 0, 127 >>
    /\ Int24_To_UInt8(DestinationSample, littleEndian) = << 255 >>

(***************************************************************************)
(* The packed store of four 24 bit samples                                 *)
(***************************************************************************)

Int24Kernels ==
    { "Float32_To_Int24", "Float32_To_Int24_Dither", "Float32_To_Int24_Clip",
      "Float32_To_Int24_DitherClip" }

Accelerated == armNeon /\ withAcceleration # 0

\* The words the g-th pass of the vector loop handed to its store.
VectorWords(g) == [ i \in Lanes |-> converted[4 * g + i].word ]

\* Bytes 1, 2 and 3 of the word v.
HighBytes(v) == << ByteOfWord(v, 1), ByteOfWord(v, 2), ByteOfWord(v, 3) >>

\* C25: on a little endian target and with destination stride 1, each pass
\* of the vector loop of a converter to Int24 stores exactly 12 bytes:
\* bytes 1, 2, 3 of lane 0, then of lanes 1, 2 and 3, and moves dest on by
\* 12; the per-lane path taken for other strides and the scalar loop store
\* the same bytes for the same four words.
C25_PackedStoreIsPerLaneStore ==
    (cpc = "called" /\ Accelerated /\ converter \in Int24Kernels
       /\ littleEndian /\ destinationStride = 1) =>
        /\ \A g \in 0 .. (count \div 4) - 1 :
             LET v == VectorWords(g)
                 blank == [ j \in 1 .. 24 |-> DestinationFill ]
                 packed == NeonWriteDestVectorInt24(blank, 0, v, 1, TRUE)
                 perLane == NeonWriteDestVectorInt24(blank, 0, v, 2, TRUE)
             IN  /\ SubSeq(destinationBuffer, 12 * g + 1, 12 * g + 12)
                      = HighBytes(v[1]) \o HighBytes(v[2]) \o HighBytes(v[3])
                          \o HighBytes(v[4])
                 /\ packed.stored = 0 .. 11
                 /\ packed.dest = 12
                 /\ SubSeq(packed.buffer, 13, 24) = SubSeq(blank, 13, 24)
                 /\ \A i \in Lanes :
                      /\ SubSeq(packed.buffer, 3 * i - 2, 3 * i)
                           = SubSeq(perLane.buffer, 6 * i - 5, 6 * i - 3)
                      /\ SubSeq(packed.buffer, 3 * i - 2, 3 * i)
                           = StoreInt32AsInt24(v[i], TRUE)
        /\ stored = 0 .. 3 * count - 1

\* Float32_To_Int24 has run one pass of its vector loop on a little endian
\* target with destination stride 1, lane 0 holding 0x7FFFFF80: the first
\* three bytes stored are FF FF 7F.
C25_Witness ==
    /\ cpc = "called"
    /\ Accelerated
    /\ converter = "Float32_To_Int24"
    /\ littleEndian
    /\ destinationStride = 1
    /\ count >= 4
    /\ converted[1].loop = "vector"
    /\ converted[1].word = 2147483520
    /\ SubSeq(destinationBuffer, 1, 3) = << 255, 255, 127 >>

(***************************************************************************)
(* Vector and scalar loop on the ramp                                      *)
(***************************************************************************)

\* The functions without dither that have a vector loop and a destination
\* of 32 or 16 bit.
PlainVectorKernels ==
    { "Float32_To_Int32", "Float32_To_Int32_Clip",
      "Float32_To_Int16", "Float32_To_Int16_Clip" }

\* The source buffer holds the ramp of the performance example.
RampSource ==
    \E start \in { 0, 126, 253 } :
        sourceBuffer = FloatRamp(start, count, sourceStride, littleEndian)

\* The destination buffer as it is before the call.
FreshDestination ==
    [ j \in 1 .. FloatSamples * SampleSize(ConverterType(converter).destination)
        |-> DestinationFill ]

\* What the call made leaves in the destination buffer when
\* withAcceleration is 0.
ScalarDestination ==
    Float32ConverterCall(converter, FreshDestination, destinationStride,
                         sourceBuffer, sourceStride, count, ditherGenerator,
                         littleEndian, armNeon, 0, floatToInt,
                         dither24Scale).destinationBuffer

VectorSamples == ARM_NEON_BEST_VECTOR_SIZE * (count \div ARM_NEON_BEST_VECTOR_SIZE)

\* The bytes the loop that handled sample i (from 1) stores for the float
\* at source sample i and the dither it drew.
BytesForSample(i) ==
    LET sample == LoadFloat32(SampleAt(sourceBuffer, i - 1, sourceStride, 4),
                              littleEndian)
        drawn == RealOfFloat32(converted[i].dither)
    IN  IF converted[i].loop = "vector"
        THEN Float32VectorLane(converter, sample, drawn, littleEndian).bytes
        ELSE Float32ScalarSample(converter, sample, drawn, floatToInt,
                                 littleEndian).bytes

\* The offsets of the bytes of destination samples 0 .. count - 1.
DestinationSampleBytes ==
    LET size == SampleSize(ConverterType(converter).destination)
    IN  { (i - 1) * destinationStride * size + k : i \in 1 .. count, k \in 0 .. size - 1 }

\* C24: with withAcceleration set and count = 4q + r, a converter with a
\* vector loop handles samples 0 .. 4q - 1 in the vector loop and the last
\* r in the scalar loop; each sample is converted once, destination sample i
\* holds what that loop stores for source sample i, the bytes stored are
\* those of destination samples 0 .. count - 1, and a count of 0 converts
\* and stores nothing.
C24_VectorLoopThenScalarLoop ==
    (cpc = "called" /\ Accelerated /\ converter \in VectorKernels) =>
        /\ Len(converted) = count
        /\ \A i \in 1 .. count :
             /\ converted[i].index = i - 1
             /\ converted[i].loop = IF i <= VectorSamples THEN "vector" ELSE "scalar"
             /\ SampleAt(destinationBuffer, i - 1, destinationStride,
                         SampleSize(ConverterType(converter).destination))
                  = BytesForSample(i)
        /\ stored = DestinationSampleBytes
        /\ count = 0 => destinationBuffer = FreshDestination

\* Float32_To_Int24_Dither has converted nine samples with source stride 2:
\* two passes of the vector loop and one of the scalar loop.
C24_Witness ==
    /\ cpc = "called"
    /\ Accelerated
    /\ converter = "Float32_To_Int24_Dither"
    /\ count = TwoVectorsAndOne
    /\ sourceStride = 2
    /\ Len(converted) = count
    /\ converted[2 * ARM_NEON_BEST_VECTOR_SIZE].loop = "vector"
    /\ converted[count].loop = "scalar"
    /\ Cardinality(stored) = 3 * count

(***************************************************************************)
(* Float32 to Int32 and back                                               *)
(***************************************************************************)

\* |x| <= 0.99, as 100 |x| <= 99.
AtMost99Hundredths(x) == MagCompare(MagTimesDigit(x.mag, 100), RealOfInt(99).mag) <= 0

\* |x - y| <= 1 / 2^31
WithinOneInt32Step(x, y) ==
    MagCompare(RealAdd(x, Real(~y.neg, y.mag)).mag,
               MagTimesPow2(<< 1 >>, DigitBits * FractionDigits - 31)) <= 0

\* The float Int32_To_Float32 stores for destination sample i (from 1) of
\* the call made.
FloatOfStored(i) ==
    LoadFloat32(Int32_To_Float32(SampleAt(destinationBuffer, i - 1, destinationStride, 4),
                                 littleEndian), littleEndian)

\* C22: for a float of magnitude at most 0.99, the float that
\* Int32_To_Float32 gives for the integer Float32_To_Int32 stored differs
\* from it by at most 1 / 2^31.
C22_RoundTripWithinOneStep ==
    (cpc = "called" /\ converter = "Float32_To_Int32") =>
        \A i \in 1 .. count :
            LET f == LoadFloat32(SampleAt(sourceBuffer, i - 1, sourceStride, 4),
                                 littleEndian)
            IN  AtMost99Hundredths(f) => WithinOneInt32Step(FloatOfStored(i), f)

\* Float32_To_Int32 has converted 16777215 / 2^33, whose product with 2^31
\* is 4194303.75, to 4194303, and the float next to 0.99 to 16609443 * 128;
\* the first comes back changed, the second unchanged.
C22_Witness ==
    /\ cpc = "called"
    /\ converter = "Float32_To_Int32"
    /\ count = TwoVectorsAndOne
    /\ sourceBuffer = FloatBuffer(RoundTripFloats, 0, littleEndian)
    /\ converted[1].value = 4194303
    /\ converted[5].value = 2126008704
    /\ FloatOfStored(1) # LoadFloat32(SampleAt(sourceBuffer, 0, 1, 4), littleEndian)
    /\ FloatOfStored(5) = LoadFloat32(SampleAt(sourceBuffer, 4, 1, 4), littleEndian)
    /\ AtMost99Hundredths(FloatOfStored(5))

(***************************************************************************)
(* The dither drawn by a call                                              *)
(***************************************************************************)

\* The _Dither and _DitherClip entries of the converter table.
DitheringConverters ==
    { t.name : t \in { u \in ConverterTypes :
                         \E s \in { "Float32", "Int32", "Int24", "Int16" },
                            d \in IntegerDestinations, v \in { "_Dither", "_DitherClip" } :
                              u.name = ConverterName(s, d, v) } }

\* The generator states a and b stand at the same place of the sequence:
\* the same previous value and the same seeds in randSeed1[0] and
\* randSeed2[0], which the next scalar draw steps.
SamePlace(a, b) ==
    /\ a.previous = b.previous
    /\ a.randSeed1[1] = b.randSeed1[1]
    /\ a.randSeed2[1] = b.randSeed2[1]

\* C23: after a call of a dithering converter with sample count n, with
\* withAcceleration set or not, one dither value has been drawn per sample:
\* the generator stands n steps on from the state that was handed in.
C23_OneDitherPerSample ==
    (cpc = "called" /\ converter \in DitheringConverters) =>
        /\ Len(dithers) = count
        /\ SamePlace(ditherGenerator, AfterDraws(ditherStart, count))

(***************************************************************************)
(* A stream converted in chunks: the caller selects the converter once and *)
(* calls it on successive parts of its buffers, handing the same dither    *)
(* generator to every call.                                                *)
(***************************************************************************)

\* What the calls made so far leave, after one more call, r, on the samples
\* from byte dstOff of the destination buffer on.
JoinCalls(a, r, dstOff) ==
    [ a EXCEPT !.destinationBuffer = SubSeq(@, 1, dstOff) \o r.destinationBuffer,
               !.ditherGenerator = r.ditherGenerator,
               !.stored = @ \cup { dstOff + o : o \in r.stored },
               !.dithers = @ \o r.dithers,
               !.done = @ + Head(a.chunks),
               !.chunks = Tail(@) ]

\* The calls of a converter that reads integer samples, one for each chunk
\* in turn: each starts where the one before stopped, in both buffers, and
\* is handed the dither generator as the one before left it.
RECURSIVE ChunkLoop(_)
ChunkLoop(a) ==
    IF a.chunks = << >> THEN a
    ELSE LET srcOff == a.done * a.sourceStride * SampleSize(ConverterType(a.conv).source)
             dstOff == a.done * a.destinationStride
                         * SampleSize(ConverterType(a.conv).destination)
         IN  ChunkLoop(JoinCalls(a, ConverterCall(a.conv,
                                                  SubSeq(a.destinationBuffer, dstOff + 1,
                                                         Len(a.destinationBuffer)),
                                                  a.destinationStride,
                                                  SubSeq(a.sourceBuffer, srcOff + 1,
                                                         Len(a.sourceBuffer)),
                                                  a.sourceStride, Head(a.chunks),
                                                  a.ditherGenerator, a.le),
                                dstOff))

\* A call on the first k samples and then a call on the other n - k, for a
\* converter that reads integer samples.
ChunkedCalls(conv, dstBuffer, dstStride, srcBuffer, srcStride, n, k, dither, le) ==
    ChunkLoop([ conv |-> conv, destinationBuffer |-> dstBuffer,
                destinationStride |-> dstStride, sourceBuffer |-> srcBuffer,
                sourceStride |-> srcStride, chunks |-> << k, n - k >>, done |-> 0,
                ditherGenerator |-> dither, le |-> le, stored |-> {},
                dithers |-> << >> ])

\* The same for a converter that reads floats.
RECURSIVE Float32ChunkLoop(_)
Float32ChunkLoop(a) ==
    IF a.chunks = << >> THEN a
    ELSE LET srcOff == a.done * a.sourceStride * 4
             dstOff == a.done * a.destinationStride
                         * SampleSize(ConverterType(a.conv).destination)
             join(r) == [ JoinCalls(a, r, dstOff) EXCEPT !.converted = @ \o r.converted ]
         IN  Float32ChunkLoop(join(Float32ConverterCall(a.conv,
                                                        SubSeq(a.destinationBuffer,
                                                               dstOff + 1,
                                                               Len(a.destinationBuffer)),
                                                        a.destinationStride,
                                                        SubSeq(a.sourceBuffer, srcOff + 1,
                                                               Len(a.sourceBuffer)),
                                                        a.sourceStride, Head(a.chunks),
                                                        a.ditherGenerator, a.le, a.neon,
                                                        a.acceleration, a.cast,
                                                        a.scale24)))

Float32ChunkedCalls(conv, dstBuffer, dstStride, srcBuffer, srcStride, n, k, dither, le, neon, acceleration, cast, scale24) ==
    Float32ChunkLoop([ conv |-> conv, destinationBuffer |-> dstBuffer,
                       destinationStride |-> dstStride, sourceBuffer |-> srcBuffer,
                       sourceStride |-> srcStride, chunks |-> << k, n - k >>,
                       done |-> 0, ditherGenerator |-> dither, le |-> le,
                       neon |-> neon, acceleration |-> acceleration, cast |-> cast,
                       scale24 |-> scale24, stored |-> {}, dithers |-> << >>,
                       converted |-> << >> ])

\* The destination buffer before the first call: room for as many samples
\* as the source buffer holds.
StreamDestination ==
    [ j \in 1 .. (Len(sourceBuffer) \div SampleSize(ConverterType(converter).source))
                   * SampleSize(ConverterType(converter).destination)
        |-> DestinationFill ]

\* The two calls of a converter that reads integer samples (or copies), the
\* first on k of the count samples.
ConvertInChunks ==
    /\ cpc = "selected"
    /\ converter # NULL
    /\ ConverterType(converter).source # "Float32"
    /\ \E k \in 0 .. count :
         \E r \in { ChunkedCalls(converter, StreamDestination, destinationStride,
                                 sourceBuffer, sourceStride, count, k,
                                 ditherGenerator, littleEndian) } :
           /\ destinationBuffer' = r.destinationBuffer
           /\ ditherGenerator' = r.ditherGenerator
           /\ stored' = r.stored
           /\ dithers' = r.dithers
    /\ cpc' = "called"
    /\ UNCHANGED << littleEndian, sourceFormat, destinationFormat, flags, converter,
                    sourceBuffer, sourceStride, destinationStride, count, zeroer >>
    /\ UNCHANGED selectVars
    /\ UNCHANGED drawVars
    /\ UNCHANGED floatVars

\* The two calls of a converter that reads floats.
ConvertFloatInChunks ==
    /\ cpc = "selected"
    /\ converter # NULL
    /\ ConverterType(converter).source = "Float32"
    /\ \E k \in 0 .. count :
         \E r \in { Float32ChunkedCalls(converter, StreamDestination, destinationStride,
                                        sourceBuffer, sourceStride, count, k,
                                        ditherGenerator, littleEndian, armNeon,
                                        withAcceleration, floatToInt, dither24Scale) } :
           /\ destinationBuffer' = r.destinationBuffer
           /\ ditherGenerator' = r.ditherGenerator
           /\ stored' = r.stored
           /\ dithers' = r.dithers
           /\ converted' = r.converted
    /\ cpc' = "called"
    /\ UNCHANGED << littleEndian, sourceFormat, destinationFormat, flags, converter,
                    sourceBuffer, sourceStride, destinationStride, count, zeroer >>
    /\ UNCHANGED << armNeon, withAcceleration, floatToInt, dither24Scale >>
    /\ UNCHANGED selectVars
    /\ UNCHANGED drawVars

\* The buffers, counts and strides of the streams: the ramp of the
\* performance example in the source format.
StreamCalls(fmt, le) ==
    IF fmt = paFloat32
    THEN { [ count |-> 0, sourceStride |-> 1, destinationStride |-> 1,
             sourceBuffer |-> FloatRamp(0, 0, 1, le) ],
           [ count |-> TwoVectorsAndOne, sourceStride |-> 1, destinationStride |-> 1,
             sourceBuffer |-> FloatRamp(0, TwoVectorsAndOne, 1, le) ] }
           \cup
         { [ count |-> MaxCount, sourceStride |-> p[1], destinationStride |-> p[2],
             sourceBuffer |-> FloatRamp(0, MaxCount, p[1], le) ] :
               p \in { << 1, 1 >>, << 2, 1 >>, << 1, MAX_STRIDE >> } }
    ELSE { [ count |-> n, sourceStride |-> ss, destinationStride |-> ds,
             sourceBuffer |-> RampBuffer(FormatNameOf(fmt), 0, n, ss, le) ] :
               n \in { 0, MaxCount }, ss \in 1 .. MaxStride, ds \in 1 .. MaxStride }

\* The generator states handed to the first call of a stream that dithers.
StreamStarts ==
    { PaUtil_InitializeTriangularDitherState,
      DitherStateOf(0 - 16384, 0 - 2147471926, 0 - 2147471029) }

\* A stream between two of the six formats, with in-range samples.  The
\* converters that read floats run on the build with __ARM_NEON__, with
\* withAcceleration 0 or 1 and either scale of the 24 bit dither; the
\* others do not read the flag.
InitStream ==
    /\ littleEndian \in BOOLEAN
    /\ sourceFormat \in FormatSet
    /\ destinationFormat \in FormatSet
    /\ flags \in SUBSET (paClipOff \cup paDitherOff)
    /\ \E b \in Builds :
         /\ b.cast = "saturate"
         /\ b.neon <=> (sourceFormat = paFloat32 /\ destinationFormat # paFloat32)
         /\ b.scale24 = 256 => /\ sourceFormat = paFloat32
                               /\ destinationFormat = paInt24
                               /\ flags \cap paDitherOff = {}
         /\ armNeon = b.neon
         /\ withAcceleration = b.acceleration
         /\ floatToInt = b.cast
         /\ dither24Scale = b.scale24
    /\ ditherGenerator \in IF flags \cap paDitherOff = {} THEN StreamStarts
                            ELSE { PaUtil_InitializeTriangularDitherState }
    /\ DitherHandedIn
    /\ cpc = "select"
    /\ converter = NULL
    /\ \E c \in StreamCalls(sourceFormat, littleEndian) :
         /\ count = c.count
         /\ sourceStride = c.sourceStride
         /\ destinationStride = c.destinationStride
         /\ sourceBuffer = c.sourceBuffer
    /\ destinationBuffer = << >>
    /\ stored = {}
    /\ dithers = << >>
    /\ converted = << >>
    /\ zeroer = NULL
    /\ SelectIdle

NextStream ==
    \/ SelectConverter
    \/ ConvertInChunks
    \/ ConvertFloatInChunks

SpecStream == InitStream /\ [][NextStream]_vars

(***************************************************************************)
(* One call and two calls on the same samples                              *)
(***************************************************************************)

\* What a single call on all count samples leaves, from the dither state
\* the stream was handed.
WholeCall ==
    IF ConverterType(converter).source = "Float32"
    THEN LET r == Float32ConverterCall(converter, StreamDestination, destinationStride,
                                       sourceBuffer, sourceStride, count, ditherStart,
                                       littleEndian, armNeon, withAcceleration,
                                       floatToInt, dither24Scale)
         IN  [ destinationBuffer |-> r.destinationBuffer,
               ditherGenerator |-> r.ditherGenerator ]
    ELSE LET r == ConverterCall(converter, StreamDestination, destinationStride,
                                sourceBuffer, sourceStride, count, ditherStart,
                                littleEndian)
         IN  [ destinationBuffer |-> r.destinationBuffer,
               ditherGenerator |-> r.ditherGenerator ]

\* C27: for a dithering converter, a call on the first k samples followed
\* by a call on the other n - k with the same dither generator leaves the
\* destination contents a single call on the n samples leaves, and the
\* dither generator at the same place of its sequence, for every k, with
\* withAcceleration set or not.
C27_ChunkingInvariance ==
    (cpc = "called" /\ converter \in DitheringConverters) =>
        /\ destinationBuffer = WholeCall.destinationBuffer
        /\ SamePlace(ditherGenerator, WholeCall.ditherGenerator)

(***************************************************************************)
(* Every converter of the table, called once                               *)
(***************************************************************************)

\* A stream between any two of the six formats, with the dither state as
\* initialised: those from Float32 on the build with __ARM_NEON__, on the
\* ramp from 0.
InitTable ==
    /\ \/ InitConvert /\ sourceFormat # paFloat32
       \/ /\ InitFloat
          /\ armNeon
          /\ sourceBuffer = FloatRamp(0, count, sourceStride, littleEndian)
    /\ ditherGenerator = PaUtil_InitializeTriangularDitherState

NextTable ==
    \/ SelectConverter
    \/ CallConverter
    \/ ConvertFloatBuffer

SpecTable == InitTable /\ [][NextTable]_vars

(***************************************************************************)
(* The converters without an implementation                                *)
(***************************************************************************)

\* The functions whose body or loop holds nothing but IMPLEMENT ME.
UnimplementedConverters ==
    { "Int32_To_Int24_Dither", "Int32_To_UInt8_Dither", "Int24_To_UInt8_Dither",
      "Int16_To_Int8_Dither", "Int16_To_UInt8_Dither" }

\* The functions the @todo at the head of the file lists.
TodoList ==
    UnimplementedConverters \cup { "Int24_To_Int16_Dither", "Int24_To_Int8_Dither" }

\* The call stored no destination byte and left the dither generator as it
\* was handed in.
NothingDone == stored = {} /\ ditherGenerator = ditherStart

DestinationBefore ==
    [ j \in 1 .. (IF ConverterType(converter).source = "Float32"
                  THEN FloatSamples ELSE BufferSamples)
                   * SampleSize(ConverterType(converter).destination)
        |-> DestinationFill ]

\* The source buffer holds what the caller put there.
SourceAsHandedIn ==
    IF ConverterType(converter).source = "Float32"
    THEN sourceBuffer = FloatRamp(0, count, sourceStride, littleEndian)
    ELSE \E data \in DataSets :
           sourceBuffer = SourceData(FormatNameOf(sourceFormat), data, count,
                                     sourceStride, littleEndian)

\* Every byte outside destination samples 0 .. count - 1, at the destination
\* stride, is as it was before the call.
OtherBytesKept ==
    /\ Len(destinationBuffer) = Len(DestinationBefore)
    /\ \A j \in (1 .. Len(destinationBuffer)) \ { b + 1 : b \in DestinationSampleBytes } :
         destinationBuffer[j] = DestinationFill

\* C29: a converter call with destination stride s and count n, with
\* withAcceleration 0 or 1, stores only to the bytes of destination samples
\* 0, s, ..., (n - 1) * s: every byte of another sample position, and every
\* byte past the last sample, keeps its value; the source buffer holds
\* after the call what it held before, and no step writes withAcceleration.
C29_CallWritesOnlyItsSamples ==
    /\ [](cpc = "called" =>
            /\ stored \subseteq DestinationSampleBytes
            /\ OtherBytesKept
            /\ SourceAsHandedIn)
    /\ [][ /\ withAcceleration' = withAcceleration
           /\ (cpc = "selected" /\ sourceFormat = paFloat32) =>
                  sourceBuffer' = sourceBuffer ]_vars

\* Float32_To_Int24 with withAcceleration set has converted MaxCount samples
\* to every second sample position: the vector loop and the scalar loop
\* stored three bytes for each, and the bytes of the sample positions in
\* between and past the last one are as they were.
C29_Witness ==
    /\ cpc = "called"
    /\ Accelerated
    /\ converter = "Float32_To_Int24"
    /\ count = MaxCount
    /\ destinationStride = 2
    /\ Cardinality(stored) = 3 * MaxCount
    /\ SampleAt(destinationBuffer, 0, 2, 3) # << DestinationFill, DestinationFill, DestinationFill >>
    /\ \A i \in 0 .. MaxCount - 1 :
         SampleAt(destinationBuffer, 2 * i + 1, 1, 3)
           = << DestinationFill, DestinationFill, DestinationFill >>

=============================================================================
